---- MODULE Spec2Model ----
(***************************************************************************)
(* Model of the Veeam Backup & Replication integration for Home Assistant  *)
(* (custom_components/veeam_br): the poll function async_update_data, the   *)
(* coordinator that holds its last snapshot, and the sensor and button      *)
(* platforms' _sync_entities callbacks working on the entity registry.      *)
(*                                                                         *)
(* Conventions.  Python None is the string "None" where the value is an id  *)
(* or a tri-state flag, and the record NoData where it is a whole object.   *)
(* The vendor library's UNSET sentinel is the record UNSET, an enum member  *)
(* is Enum(v) and a UUID object is Uuid(s); str() of a UUID and .value of   *)
(* an enum are the conversions Str and the field access .value.             *)
(* Ids are UUIDs and the config entry id is a ULID: none of them contains   *)
(* "_", so a unique id is modelled as the sequence of the tokens that the   *)
(* f-string joins with "_", and str.startswith as a prefix of tokens.       *)
(***************************************************************************)
EXTENDS Integers, Sequences, FiniteSets, TLC

\* ---------------------------------------------------------------- bounds
MaxJobs == 2
MaxRepos == 2
MaxStates == 1
MaxSobrs == 1
MaxExtents == 2
MaxTime == 2

\* ------------------------------------------------------------ value model
NoData == [none |-> TRUE]
UNSET == [unset |-> TRUE]
Enum(v) == [value |-> v]
Uuid(s) == [uuid |-> s]

JobIds == {"j1", "j2"}
RepoIds == {"r1", "r2"}
SobrIds == {"s1"}
ExtentIds == {"x1", "x2"}

\* Exception classes a call or an attribute access can raise.  The handlers
\* of async_update_data tell apart only (AttributeError, TypeError), caught
\* per record, from every other Exception.
Exceptions == {"AttributeError", "ValueError"}
PerRecordCaught == {"AttributeError", "TypeError"}

SeqsUpTo(S, n) == UNION {[1..k -> S] : k \in 0..n}

\* A response of veeam_client.call: the call raised, returned a falsy value
\* (None), returned an object without a usable .data, or returned .data.
Raise(e) == [kind |-> "raise", exc |-> e]
Falsy == [kind |-> "falsy"]
Malformed == [kind |-> "malformed"]
Result(d) == [kind |-> "result", data |-> d]

\* get_enum_value, __init__.py 95-102
get_enum_value(enum_val, default) ==
    IF enum_val = UNSET \/ enum_val = NoData THEN default
    ELSE enum_val.value

\* get_uuid_value, __init__.py 221-225
get_uuid_value(uuid_val) ==
    IF uuid_val = UNSET \/ uuid_val = NoData THEN "None"
    ELSE uuid_val.uuid

\* str(job.id), __init__.py 115
Str(v) == IF v = UNSET THEN "Unset" ELSE v.uuid

\* ------------------------------------------------------------ jobs section
\* A raw job: exc names the exception that building its job_dict raises
\* ("none" when the record is well formed).
RawJob(id, st, e) == [id |-> Uuid(id), status |-> st, last_result |-> UNSET, exc |-> e]
\* A well-formed raw job with a last result.
RawJobWith(id, st, lr) == [id |-> Uuid(id), status |-> st, last_result |-> lr, exc |-> "none"]

\* job_dict, __init__.py 113-121
JobDict(job) ==
    [id |-> Str(job.id), status |-> get_enum_value(job.status, "unknown"),
     last_result |-> get_enum_value(job.last_result, "unknown")]

\* The for loop of __init__.py 111-126 from index i on: a record raising
\* AttributeError or TypeError is skipped, any other exception leaves the loop.
RECURSIVE ParseJobsFrom(_, _, _)
ParseJobsFrom(jobs_data, i, jobs_list) ==
    IF i > Len(jobs_data) THEN [exc |-> "none", jobs_list |-> jobs_list]
    ELSE IF jobs_data[i].exc = "none"
         THEN ParseJobsFrom(jobs_data, i + 1, Append(jobs_list, JobDict(jobs_data[i])))
    ELSE IF jobs_data[i].exc \in PerRecordCaught
         THEN ParseJobsFrom(jobs_data, i + 1, jobs_list)
    ELSE [exc |-> jobs_data[i].exc, jobs_list |-> jobs_list]

\* The jobs section without the check of line 88: a falsy response read as no
\* jobs.
JobsSectionFalsyAsEmpty(resp) ==
    IF resp.kind = "raise" THEN [exc |-> resp.exc, jobs_list |-> <<>>]
    ELSE IF resp.kind = "falsy" THEN [exc |-> "none", jobs_list |-> <<>>]
    ELSE IF resp.kind = "malformed" THEN [exc |-> "AttributeError", jobs_list |-> <<>>]
    ELSE ParseJobsFrom(resp.data, 1, <<>>)

\* __init__.py 84-126: exc is the exception that reaches the outer handler.
JobsSection(resp) ==
    IF resp.kind = "raise" THEN [exc |-> resp.exc, jobs_list |-> <<>>]
    ELSE IF resp.kind = "falsy" THEN [exc |-> "UpdateFailed", jobs_list |-> <<>>]
    ELSE IF resp.kind = "malformed" THEN [exc |-> "AttributeError", jobs_list |-> <<>>]
    ELSE ParseJobsFrom(resp.data, 1, <<>>)

\* ------------------------------------------- server info and license section
\* The raw object of a successful read; exc names the exception that reading
\* its attributes raises.
RawServer(e) == [name |-> "vbr", platform |-> Enum("Windows"), exc |-> e]
RawLicense(e) == [status |-> Enum("Valid"), edition |-> UNSET, exc |-> e]

\* __init__.py 128-158
ServerSection(resp) ==
    IF resp.kind = "raise" THEN [server_info |-> NoData, failed |-> TRUE]
    ELSE IF resp.kind = "falsy" THEN [server_info |-> NoData, failed |-> FALSE]
    ELSE IF resp.data.exc # "none" THEN [server_info |-> NoData, failed |-> TRUE]
    ELSE [server_info |-> [name |-> resp.data.name, platform |-> resp.data.platform.value],
          failed |-> FALSE]

\* __init__.py 160-215
LicenseSection(resp) ==
    IF resp.kind = "raise" THEN [license_info |-> NoData, failed |-> TRUE]
    ELSE IF resp.kind = "falsy" THEN [license_info |-> NoData, failed |-> FALSE]
    ELSE IF resp.data.exc # "none" THEN [license_info |-> NoData, failed |-> TRUE]
    ELSE [license_info |-> [status |-> get_enum_value(resp.data.status, "Unknown"),
                            edition |-> get_enum_value(resp.data.edition, "Unknown")],
          failed |-> FALSE]

\* ----------------------------------------------------- repositories section
\* getattr(obj, name, None)
Attr(obj, name) == IF name \in DOMAIN obj THEN obj[name] ELSE "None"

\* dict.get(key)
Get(d, key) == IF key \in DOMAIN d THEN d[key] ELSE "None"

\* A dict without keys.
NoProperties == <<>>
RawRepo(id, e) == [id |-> id, additional_properties |-> NoProperties, exc |-> e]
\* A well-formed raw repository whose response carried more properties.
RawRepoWith(id, ap) == [id |-> Uuid(id), additional_properties |-> ap, exc |-> "none"]
\* A raw repository state; the is_online attribute may be missing.
RawState(id, online) == [id |-> Uuid(id), is_online |-> online]
RawStateNoFlag(id) == [id |-> Uuid(id)]
RawStateFull(id, online, out_of_date) ==
    [id |-> Uuid(id), is_online |-> online, is_out_of_date |-> out_of_date]

\* __init__.py 272-282: states_by_id, the later state of an id replacing the
\* earlier one; a state without id is left out.
RECURSIVE StatesByIdFrom(_, _, _)
StatesByIdFrom(states_data, i, states_by_id) ==
    IF i > Len(states_data) THEN states_by_id
    ELSE LET repo_id == get_uuid_value(IF "id" \in DOMAIN states_data[i]
                                       THEN states_data[i].id ELSE NoData)
         IN IF repo_id = "None"
            THEN StatesByIdFrom(states_data, i + 1, states_by_id)
            ELSE StatesByIdFrom(states_data, i + 1,
                     [k \in (DOMAIN states_by_id) \cup {repo_id} |->
                         IF k = repo_id THEN states_data[i] ELSE states_by_id[k]])

\* bool(v) of a value that is True, False or None.
Bool(v) == IF v = "True" THEN "True" ELSE "False"

\* The dict branch of serialize_value, __init__.py 228-259, on a dict of the
\* decoded JSON response: the same keys, each value serialized, which leaves
\* the strings, numbers, booleans, None and dicts of such values as they are.
serialize_value(value) == [k \in DOMAIN value |-> value[k]]

\* __init__.py 307-343: the keys that the immutability of an object-storage
\* bucket sets in repo_dict.  A missing or empty bucket or immutability and an
\* isEnabled of None set nothing; immutability_days is set only when
\* isEnabled is true and daysCount is there.
BucketImmutability(additional_properties) ==
    IF "bucket" \notin DOMAIN additional_properties THEN NoProperties
    ELSE LET bucket == additional_properties.bucket IN
    IF "immutability" \notin DOMAIN bucket THEN NoProperties
    ELSE LET immutability == bucket.immutability
             is_enabled == Get(immutability, "isEnabled")
         IN IF is_enabled = "None" THEN NoProperties
            ELSE IF is_enabled = "True" /\ "daysCount" \in DOMAIN immutability
            THEN [is_immutable |-> Bool(is_enabled),
                  immutability_days |-> immutability.daysCount]
            ELSE [is_immutable |-> Bool(is_enabled)]

\* __init__.py 286-351: the dict of one repository.  The state fields are set
\* only when the states read had a state of this id; is_accessible is
\* repo_dict.get("is_online"); every additional property of the response is
\* then stored under its own key (348-351).
RepoDict(repo, states_by_id) ==
    LET repo_id == get_uuid_value(repo.id)
        with_state ==
            IF repo_id \in DOMAIN states_by_id
            THEN [id |-> repo_id,
                  is_online |-> Attr(states_by_id[repo_id], "is_online"),
                  is_out_of_date |-> Attr(states_by_id[repo_id], "is_out_of_date")]
            ELSE [id |-> repo_id]
        repo_dict == BucketImmutability(repo.additional_properties) @@ with_state
                     @@ [is_accessible |-> Get(with_state, "is_online")]
    IN serialize_value(repo.additional_properties) @@ repo_dict

\* The for loop of __init__.py 284-365.
RECURSIVE ParseReposFrom(_, _, _, _)
ParseReposFrom(repositories_data, states_by_id, i, repositories_list) ==
    IF i > Len(repositories_data)
    THEN [exc |-> "none", repositories_list |-> repositories_list]
    ELSE IF repositories_data[i].exc = "none"
         THEN ParseReposFrom(repositories_data, states_by_id, i + 1,
                  Append(repositories_list, RepoDict(repositories_data[i], states_by_id)))
    ELSE IF repositories_data[i].exc \in PerRecordCaught
         THEN ParseReposFrom(repositories_data, states_by_id, i + 1, repositories_list)
    ELSE [exc |-> repositories_data[i].exc, repositories_list |-> repositories_list]

\* __init__.py 217-369.  Both reads sit in one try block: the states read is
\* issued after the repositories read returned, and an exception of either
\* read ends the section.  failed tells that one of the two handlers ran.
ReposSection(repos_resp, states_resp) ==
    IF repos_resp.kind = "raise"
    THEN [repositories_list |-> <<>>, failed |-> TRUE, reads |-> <<"repositories">>]
    ELSE LET both == <<"repositories", "repository_states">> IN
    IF states_resp.kind = "raise"
    THEN [repositories_list |-> <<>>, failed |-> TRUE, reads |-> both]
    ELSE IF repos_resp.kind = "falsy"
    THEN [repositories_list |-> <<>>, failed |-> FALSE, reads |-> both]
    ELSE IF repos_resp.kind = "malformed" \/ states_resp.kind = "malformed"
    THEN [repositories_list |-> <<>>, failed |-> TRUE, reads |-> both]
    ELSE LET states_by_id == IF states_resp.kind = "falsy" THEN <<>>
                             ELSE StatesByIdFrom(states_resp.data, 1, <<>>)
             parsed == ParseReposFrom(repos_resp.data, states_by_id, 1, <<>>)
         IN [repositories_list |-> parsed.repositories_list,
             failed |-> parsed.exc # "none", reads |-> both]

\* ------------------------------------------------------------ SOBR section
ExtentFlags(fs) == [flags |-> fs]
RawExtent(id, st, e) == [id |-> Uuid(id), status |-> st, exc |-> e]
NoTier == [absent |-> TRUE]
Tier(extents) == [performance_extents |-> extents]
RawSobr(id, tier, e) == [id |-> Uuid(id), performance_tier |-> tier, exc |-> e]

ExtentDict(extent) ==
    [id |-> get_uuid_value(extent.id),
     status |-> IF extent.status = UNSET THEN <<>>
                ELSE [k \in 1..Len(extent.status.flags) |-> extent.status.flags[k].value]]

\* The inner for loop of __init__.py 403-413: it has no handler of its own,
\* so the first extent that raises ends the loop with that exception.
RECURSIVE ParseExtentsFrom(_, _, _)
ParseExtentsFrom(performance_extents, i, extents) ==
    IF i > Len(performance_extents) THEN [exc |-> "none", extents |-> extents]
    ELSE IF performance_extents[i].exc = "none"
         THEN ParseExtentsFrom(performance_extents, i + 1,
                  Append(extents, ExtentDict(performance_extents[i])))
    ELSE [exc |-> performance_extents[i].exc, extents |-> extents]

\* __init__.py 386-421: the body of the try of one SOBR; exc is what it raises.
SobrDict(sobr) ==
    IF sobr.exc # "none" THEN [exc |-> sobr.exc, sobr_dict |-> NoData]
    ELSE IF sobr.performance_tier = NoTier
    THEN [exc |-> "none", sobr_dict |-> [id |-> get_uuid_value(sobr.id)]]
    ELSE LET parsed == ParseExtentsFrom(sobr.performance_tier.performance_extents, 1, <<>>)
         IN IF parsed.exc # "none" THEN [exc |-> parsed.exc, sobr_dict |-> NoData]
            ELSE [exc |-> "none",
                  sobr_dict |-> [id |-> get_uuid_value(sobr.id), extents |-> parsed.extents]]

\* The for loop of __init__.py 385-434.
RECURSIVE ParseSobrsFrom(_, _, _)
ParseSobrsFrom(sobr_data, i, sobr_list) ==
    IF i > Len(sobr_data) THEN [exc |-> "none", sobr_list |-> sobr_list]
    ELSE LET one == SobrDict(sobr_data[i]) IN
         IF one.exc = "none"
         THEN ParseSobrsFrom(sobr_data, i + 1, Append(sobr_list, one.sobr_dict))
         ELSE IF one.exc \in PerRecordCaught
         THEN ParseSobrsFrom(sobr_data, i + 1, sobr_list)
         ELSE [exc |-> one.exc, sobr_list |-> sobr_list]

\* __init__.py 375-438
SobrSection(resp) ==
    IF resp.kind = "raise" THEN [sobr_list |-> <<>>, failed |-> TRUE]
    ELSE IF resp.kind = "falsy" THEN [sobr_list |-> <<>>, failed |-> FALSE]
    ELSE IF resp.kind = "malformed" THEN [sobr_list |-> <<>>, failed |-> TRUE]
    ELSE LET parsed == ParseSobrsFrom(resp.data, 1, <<>>)
         IN [sobr_list |-> parsed.sobr_list, failed |-> parsed.exc # "none"]

\* ------------------------------------------------------------ the responses
\* The status the server reports for a job is fixed per job id.
RawStatus(id) == IF id = "j1" THEN Enum("running") ELSE UNSET
RawExtentStatus(id) == IF id = "x1" THEN ExtentFlags(<<Enum("Sealed")>>) ELSE UNSET

MaybeExc == {"none"} \cup Exceptions
RawJobs == {RawJob(id, RawStatus(id), e) : id \in JobIds, e \in MaybeExc}
RawRepos == {RawRepo(Uuid(id), e) : id \in RepoIds, e \in MaybeExc} \cup {RawRepo(UNSET, "none")}
RawStates == {RawState("r1", "True"), RawState("r1", "False"), RawStateNoFlag("r2")}
RawExtents == {RawExtent(id, RawExtentStatus(id), e) : id \in ExtentIds, e \in MaybeExc}
RawSobrs ==
    {RawSobr(id, NoTier, e) : id \in SobrIds, e \in MaybeExc}
    \cup {RawSobr(id, Tier(x), "none") : id \in SobrIds, x \in SeqsUpTo(RawExtents, MaxExtents)}

ListResponses(raw, n) ==
    {Raise(e) : e \in Exceptions} \cup {Falsy, Malformed}
    \cup {Result(d) : d \in SeqsUpTo(raw, n)}
ObjectResponses(raw) ==
    {Raise(e) : e \in Exceptions} \cup {Falsy} \cup {Result(d) : d \in raw}

JobsResponses == ListResponses(RawJobs, MaxJobs)
ServerResponses == ObjectResponses({RawServer(e) : e \in MaybeExc})
LicenseResponses == ObjectResponses({RawLicense(e) : e \in MaybeExc})
ReposResponses == ListResponses(RawRepos, MaxRepos)
StatesResponses == ListResponses(RawStates, MaxStates)
SobrResponses == ListResponses(RawSobrs, MaxSobrs)

\* ---------------------------------------------------------------- the state
VARIABLES
    now,                 \* the clock dt_util.now() reads
    data,                \* coordinator.data: NoData or the last snapshot
    last_update_success, \* coordinator.last_update_success
    pc,                  \* where the running async_update_data stands
    jobs_list, server_info, license_info, repositories_list, sobr_list,
    diag,                \* its locals connected, health_ok, last_successful_poll
    reads,               \* the reads the current or last poll has issued, in order
    lastRead,            \* the responses its latest section got
    failed,              \* the best-effort sections whose handler ran in it
    pollResult,          \* "none", "running", "ok" or "UpdateFailed"
    returned,            \* the snapshot the most recent successful poll returned
    features,            \* the feature paths check_api_feature_availability finds
    up,                  \* the entry is set up: both platforms run their callbacks
    registry,            \* the entity registry: entries [config_entry_id, unique_id]
    devices,             \* the device registry: the identifiers of its devices
    s_added_job_ids, s_added_repository_ids, server_added, license_added,
                         \* the tracking of sensor.py's async_setup_entry
    b_added_job_ids, b_added_repository_ids, b_added_sobr_extent_ids,
                         \* the tracking of button.py's async_setup_entry
    pending,             \* the listeners the coordinator has still to call
    press,               \* the button press in progress or last made
    tm,                  \* the fields of the VeeamTokenManager
    ensure,              \* the ensure_valid_token call in progress or last made
    flow,                \* the config flow's user step in progress or last made
    configured,          \* the hosts that have a config entry
    setup,               \* the run of async_setup_entry and what it left behind
    overlap              \* a second call of ensure_valid_token, made while one is under way

pollVars == <<pc, jobs_list, server_info, license_info, repositories_list, sobr_list, diag>>
sensorVars == <<s_added_job_ids, s_added_repository_ids, server_added, license_added>>
buttonVars == <<b_added_job_ids, b_added_repository_ids, b_added_sobr_extent_ids>>
componentVars == <<press, tm, ensure, flow, configured, setup, overlap>>
syncVars == <<features, up, registry, devices, sensorVars, buttonVars, pending,
              componentVars>>
vars == <<now, data, last_update_success, pollVars, reads, lastRead, failed,
          pollResult, returned, syncVars>>

\* check_api_feature_availability (const.py 97-114) answers from the installed
\* vendor package: every feature path the buttons ask for, or an API version
\* that lacks the retry, rescan and extent-mode models.
AllFeatures == {"models.job_start_spec", "models.job_stop_spec", "models.job_retry_spec",
                "api.jobs", "models.repositories_rescan_spec",
                "models.scale_out_extent_maintenance_spec"}
FeatureSets == {AllFeatures,
                {"models.job_start_spec", "models.job_stop_spec", "api.jobs"}}

ThisEntry == "e1"
OtherEntry == "e2"
Entity(entry_id, unique_id) == [config_entry_id |-> entry_id, unique_id |-> unique_id]
\* An entity of another config entry of the integration.
ForeignEntity == Entity(OtherEntry, <<OtherEntry, "job", "j1", "status">>)

NoneTime == -1
NoRead == [section |-> "none"]

Diagnostics(c, h, t) == [connected |-> c, health_ok |-> h, last_successful_poll |-> t]

\* __init__.py 446-457
Snapshot(jl, si, li, rl, sl, d) ==
    [jobs |-> jl, server_info |-> si, license_info |-> li,
     repositories |-> rl, sobrs |-> sl, diagnostics |-> d]

\* The device an entity is put on, from its device_info identifiers
\* (sensor.py 155-158, 184-187, 219-222, 337-342; button.py 287-290, 369-372,
\* 706-709): job_<id>, repository_<id>, sobr_<sobr id>, server_<entry id>,
\* license_<entry id>.
DeviceOf(unique_id) ==
    IF unique_id[2] \in {"job", "repository", "sobr"} THEN <<unique_id[2], unique_id[3]>>
    ELSE <<unique_id[2], unique_id[1]>>

\* No button has been pressed.
NoPress == [pc |-> "idle"]

\* VeeamTokenManager.__init__, token_manager.py 40-43.  The authenticated
\* client is identified with the token it was built with.
NoSession == [access_token |-> "None", refresh_token |-> "None",
              token_expires_at |-> NoneTime, authenticated_client |-> "None"]
\* ensure_valid_token has not been called.
NoCall == [pc |-> "idle"]
\* No config flow has been started.
NoFlow == [pc |-> "none"]
\* One run of async_setup_entry: where it is, what the import of the types
\* module and connect() gave, whether the coordinator was constructed, the
\* polls it issued, the keys stored in entry.runtime_data, the platforms the
\* setup was forwarded to, whether the update listener is registered, what
\* the run returned or raised, and what each platform setup got when it
\* looked the coordinator up.
SetupRun(at, imp, conn, coord, polls, stored, forwarded, listener, result, sensor, button) ==
    [pc |-> at, import |-> imp, connect |-> conn, coordinator |-> coord, polls |-> polls,
     runtime_data |-> stored, forwarded |-> forwarded, listener |-> listener,
     result |-> result, sensor |-> sensor, button |-> button]
NoSetup == SetupRun("idle", "none", "none", FALSE, 0, {}, <<>>, FALSE, "none", "none", "none")

Init ==
    /\ now = 0
    /\ data = NoData
    /\ last_update_success = TRUE
    /\ pc = "idle"
    /\ jobs_list = <<>> /\ server_info = NoData /\ license_info = NoData
    /\ repositories_list = <<>> /\ sobr_list = <<>>
    /\ diag = Diagnostics(FALSE, FALSE, NoneTime)
    /\ reads = <<>> /\ lastRead = NoRead /\ failed = {}
    /\ pollResult = "none"
    /\ returned = NoData
    /\ features \in FeatureSets
    /\ up = FALSE
    /\ registry = {ForeignEntity}
    /\ devices = {DeviceOf(ForeignEntity.unique_id)}
    /\ s_added_job_ids = {} /\ s_added_repository_ids = {}
    /\ server_added = FALSE /\ license_added = FALSE
    /\ b_added_job_ids = {} /\ b_added_repository_ids = {}
    /\ b_added_sobr_extent_ids = {}
    /\ pending = <<>>
    /\ press = NoPress
    /\ tm = NoSession
    /\ ensure = NoCall
    /\ flow = NoFlow
    /\ configured = {}
    /\ setup = NoSetup
    /\ overlap = NoCall

\* A handler that hands the coordinator an empty result instead of raising.
FailedRefreshDataCleared(old) == NoData

\* What the coordinator keeps as data when its update method raised
\* UpdateFailed: the data it had (__init__.py 459-462).
FailedRefreshData(old) == old

\* The locals of line 73-75 with health_ok starting as True.
FirstRefreshHealthy ==
    /\ pc = "idle" /\ data = NoData /\ now < MaxTime
    /\ now' = now + 1
    /\ pc' = "jobs"
    /\ jobs_list' = <<>> /\ server_info' = NoData /\ license_info' = NoData
    /\ repositories_list' = <<>> /\ sobr_list' = <<>>
    /\ diag' = Diagnostics(TRUE, TRUE, NoneTime)
    /\ reads' = <<>> /\ lastRead' = NoRead /\ failed' = {}
    /\ pollResult' = "running"
    /\ UNCHANGED <<syncVars, data, last_update_success, returned>>

\* coordinator.async_config_entry_first_refresh(), __init__.py 472, entering
\* async_update_data (70-82); a first refresh that failed is tried again when
\* the entry is set up again.
FirstRefresh ==
    /\ pc = "idle" /\ data = NoData /\ now < MaxTime
    /\ now' = now + 1
    /\ pc' = "jobs"
    /\ jobs_list' = <<>> /\ server_info' = NoData /\ license_info' = NoData
    /\ repositories_list' = <<>> /\ sobr_list' = <<>>
    /\ diag' = Diagnostics(TRUE, FALSE, NoneTime)
    /\ reads' = <<>> /\ lastRead' = NoRead /\ failed' = {}
    /\ pollResult' = "running"
    /\ UNCHANGED <<syncVars, data, last_update_success, returned>>

\* __init__.py 84-126 and, when the section raises, 459-462.
PollJobs ==
    /\ pc = "jobs"
    /\ \E resp \in JobsResponses :
         LET out == JobsSection(resp) IN
         /\ reads' = Append(reads, "jobs")
         /\ lastRead' = [section |-> "jobs", resp |-> resp]
         /\ IF out.exc # "none"
            THEN /\ pc' = "idle"
                 /\ pollResult' = "UpdateFailed"
                 /\ data' = FailedRefreshData(data)
                 /\ last_update_success' = FALSE
                 /\ UNCHANGED jobs_list
            ELSE /\ pc' = "server"
                 /\ jobs_list' = out.jobs_list
                 /\ UNCHANGED <<pollResult, data, last_update_success>>
    /\ UNCHANGED <<syncVars, now, server_info, license_info, repositories_list, sobr_list,
                   diag, failed, returned>>

\* __init__.py 128-158
PollServer ==
    /\ pc = "server"
    /\ \E resp \in ServerResponses :
         LET out == ServerSection(resp) IN
         /\ reads' = Append(reads, "server_info")
         /\ lastRead' = [section |-> "server_info", resp |-> resp]
         /\ server_info' = out.server_info
         /\ failed' = IF out.failed THEN failed \cup {"server_info"} ELSE failed
    /\ pc' = "license"
    /\ UNCHANGED <<syncVars, now, data, last_update_success, jobs_list, license_info,
                   repositories_list, sobr_list, diag, pollResult, returned>>

\* __init__.py 160-215
PollLicense ==
    /\ pc = "license"
    /\ \E resp \in LicenseResponses :
         LET out == LicenseSection(resp) IN
         /\ reads' = Append(reads, "license")
         /\ lastRead' = [section |-> "license", resp |-> resp]
         /\ license_info' = out.license_info
         /\ failed' = IF out.failed THEN failed \cup {"license"} ELSE failed
    /\ pc' = "repositories"
    /\ UNCHANGED <<syncVars, now, data, last_update_success, jobs_list, server_info,
                   repositories_list, sobr_list, diag, pollResult, returned>>

\* __init__.py 217-369
PollRepositories ==
    /\ pc = "repositories"
    /\ \E resp \in ReposResponses, states \in StatesResponses :
         LET out == ReposSection(resp, states) IN
         /\ reads' = reads \o out.reads
         /\ lastRead' = [section |-> "repositories", resp |-> resp,
                         states |-> IF Len(out.reads) = 2 THEN states ELSE NoRead]
         /\ repositories_list' = out.repositories_list
         /\ failed' = IF out.failed THEN failed \cup {"repositories"} ELSE failed
    /\ pc' = "sobrs"
    /\ UNCHANGED <<syncVars, now, data, last_update_success, jobs_list, server_info,
                   license_info, sobr_list, diag, pollResult, returned>>

\* __init__.py 375-438
PollSobrs ==
    /\ pc = "sobrs"
    /\ \E resp \in SobrResponses :
         LET out == SobrSection(resp) IN
         /\ reads' = Append(reads, "sobrs")
         /\ lastRead' = [section |-> "sobrs", resp |-> resp]
         /\ sobr_list' = out.sobr_list
         /\ failed' = IF out.failed THEN failed \cup {"sobrs"} ELSE failed
    /\ pc' = "finish"
    /\ UNCHANGED <<syncVars, now, data, last_update_success, jobs_list, server_info,
                   license_info, repositories_list, diag, pollResult, returned>>

\* __init__.py 442-457: the snapshot is returned and the coordinator stores it.
PollFinish ==
    /\ pc = "finish"
    /\ LET d == Diagnostics(diag.connected, TRUE, now)
           snapshot == Snapshot(jobs_list, server_info, license_info,
                                repositories_list, sobr_list, d)
       IN /\ diag' = d
          /\ returned' = snapshot
          /\ data' = snapshot
    /\ pollResult' = "ok"
    /\ last_update_success' = TRUE
    /\ pc' = "idle"
    /\ lastRead' = NoRead
    /\ UNCHANGED <<syncVars, now, jobs_list, server_info, license_info, repositories_list,
                   sobr_list, reads, failed>>

NextPoll ==
    \/ FirstRefresh
    \/ PollJobs
    \/ PollServer
    \/ PollLicense
    \/ PollRepositories
    \/ PollSobrs
    \/ PollFinish

InitPoll == Init /\ features = AllFeatures

SpecPoll == InitPoll /\ [][NextPoll]_vars

\* ------------------------------------------------- async_update_data, whole
\* The poll as one function of the six responses and the clock: the sections
\* in their order, __init__.py 70-462.  A read the poll does not reach is not
\* issued, whatever resp holds for it.
async_update_data(resp, t) ==
    LET j == JobsSection(resp.jobs) IN
    IF j.exc # "none"
    THEN [result |-> "UpdateFailed", snapshot |-> NoData, reads |-> <<"jobs">>,
          failed |-> {}]
    ELSE LET s == ServerSection(resp.server)
             l == LicenseSection(resp.license)
             r == ReposSection(resp.repositories, resp.states)
             o == SobrSection(resp.sobrs)
         IN [result |-> "ok",
             snapshot |-> Snapshot(j.jobs_list, s.server_info, l.license_info,
                                   r.repositories_list, o.sobr_list,
                                   Diagnostics(TRUE, TRUE, t)),
             reads |-> <<"jobs", "server_info", "license">> \o r.reads \o <<"sobrs">>,
             failed |-> {x \in {"server_info"} : s.failed} \cup {x \in {"license"} : l.failed}
                        \cup {x \in {"repositories"} : r.failed}
                        \cup {x \in {"sobrs"} : o.failed}]

\* The responses of the polls that the reconciliation is checked with: well
\* formed records, a section present, empty or failed.
GoodJob(id) == RawJob(id, RawStatus(id), "none")
GoodExtent(id) == RawExtent(id, RawExtentStatus(id), "none")
SyncResponses ==
    [jobs : {Raise("ValueError"), Result(<<>>), Result(<<GoodJob("j2")>>),
             Result(<<GoodJob("j1"), GoodJob("j2")>>)},
     server : {Falsy, Result(RawServer("none"))},
     license : {Result(RawLicense("none"))},
     repositories : {Raise("ValueError"), Result(<<RawRepo(UNSET, "none")>>),
                     Result(<<RawRepo(Uuid("r1"), "none")>>)},
     states : {Result(<<RawState("r1", "True")>>)},
     sobrs : {Falsy,
              Result(<<RawSobr("s1", Tier(<<GoodExtent("x1")>>), "none")>>),
              Result(<<RawSobr("s1", Tier(<<GoodExtent("x1"), GoodExtent("x2")>>), "none")>>)}]

\* --------------------------------------------------------------- unique ids
JobSensorKeys == {"status", "type", "last_run", "next_run"}
RepositorySensorKeys ==
    {"type", "description", "capacity", "free_space", "used_space", "used_space_percent",
     "online", "out_of_date", "immutable", "object_lock", "hardened", "accessible",
     "mounted", "capacity_warning", "capacity_critical"}
ServerSensorKeys ==
    {"build_version", "name", "platform", "database_vendor", "sql_edition", "sql_version",
     "health_ok", "last_successful_poll", "connected"}
LicenseSensorKeys ==
    {"status", "edition", "type", "expiration", "support_expiration", "licensed_to",
     "support_id", "auto_update", "cloud_connect"}
ExtentButtonKeys ==
    {"enable_sealed_mode", "disable_sealed_mode", "enable_maintenance_mode",
     "disable_maintenance_mode"}

\* f"{entry_id}_job_{job_id}_{key}" and its like
JobUid(entry_id, job_id, key) == <<entry_id, "job", job_id, key>>
RepositoryUid(entry_id, repo_id, key) == <<entry_id, "repository", repo_id, key>>
ExtentUid(entry_id, sobr_id, extent_id, key) ==
    <<entry_id, "sobr", sobr_id, "extent", extent_id, key>>
ServerUid(entry_id, key) == <<entry_id, "server", key>>
LicenseUid(entry_id, key) == <<entry_id, "license", key>>

\* unique_id.startswith(prefix) for a prefix that ends in "_": the tokens of
\* the prefix, and more after them.
StartsWith(unique_id, prefix) ==
    /\ Len(unique_id) > Len(prefix)
    /\ SubSeq(unique_id, 1, Len(prefix)) = prefix

\* "_extent_" in unique_id
HasExtentToken(unique_id) ==
    \E i \in 2..(Len(unique_id) - 1) : unique_id[i] = "extent"

\* `if not x`: None and the empty string are falsy
Truthy(id) == id # "None" /\ id # ""

SeqIds(list) == {list[i].id : i \in 1..Len(list)}

\* ------------------------------------------------ sensor.py _sync_entities
\* sensor.py 33-129 as a function of coordinator.data and the tracking; it
\* creates entities and removes none.
SensorSyncOut(d, added_job_ids, added_repository_ids, srv_added, lic_added) ==
    IF d = NoData
    THEN [new_entities |-> {}, added_job_ids |-> added_job_ids,
          added_repository_ids |-> added_repository_ids,
          server_added |-> srv_added, license_added |-> lic_added]
    ELSE
    LET new_jobs == {id \in SeqIds(d.jobs) : Truthy(id) /\ id \notin added_job_ids}
        new_repos == {id \in SeqIds(d.repositories) :
                         Truthy(id) /\ id \notin added_repository_ids}
        add_server == ~srv_added /\ d.server_info # NoData
        add_license == ~lic_added /\ d.license_info # NoData
    IN [new_entities |->
            {JobUid(ThisEntry, id, k) : id \in new_jobs, k \in JobSensorKeys}
            \cup {RepositoryUid(ThisEntry, id, k) : id \in new_repos, k \in RepositorySensorKeys}
            \cup {ServerUid(ThisEntry, k) : k \in {x \in ServerSensorKeys : add_server}}
            \cup {LicenseUid(ThisEntry, k) : k \in {x \in LicenseSensorKeys : add_license}},
        added_job_ids |-> added_job_ids \cup new_jobs,
        added_repository_ids |-> added_repository_ids \cup new_repos,
        server_added |-> srv_added \/ add_server,
        license_added |-> lic_added \/ add_license]

\* ------------------------------------------------ button.py _sync_entities
JobButtonKeys(fs) ==
    {k \in {"start"} : "models.job_start_spec" \in fs}
    \cup {k \in {"stop"} : "models.job_stop_spec" \in fs}
    \cup {k \in {"retry"} : "models.job_retry_spec" \in fs}
    \cup {k \in {"enable", "disable"} : "api.jobs" \in fs}

\* The (sobr_id, extent_id) pairs of a snapshot, button.py 139-148 and 217-224.
ExtentPairs(d) ==
    UNION {IF Truthy(d.sobrs[i].id) /\ "extents" \in DOMAIN d.sobrs[i]
           THEN {<<d.sobrs[i].id, id>> : id \in {x \in SeqIds(d.sobrs[i].extents) : Truthy(x)}}
           ELSE {} : i \in 1..Len(d.sobrs)}

\* button.py 87-182 without the added_*.add(...) calls: the tracking is left
\* as it was.
ButtonCreateOutUntracked(d, fs, added_job_ids, added_repository_ids, added_sobr_extent_ids) ==
    LET new_jobs == {id \in SeqIds(d.jobs) : Truthy(id) /\ id \notin added_job_ids}
        new_repos == IF "models.repositories_rescan_spec" \in fs
                     THEN {id \in SeqIds(d.repositories) :
                              Truthy(id) /\ id \notin added_repository_ids}
                     ELSE {}
        new_extents == IF "models.scale_out_extent_maintenance_spec" \in fs
                       THEN ExtentPairs(d) \ added_sobr_extent_ids
                       ELSE {}
    IN [new_entities |->
            {JobUid(ThisEntry, id, k) : id \in new_jobs, k \in JobButtonKeys(fs)}
            \cup {RepositoryUid(ThisEntry, id, "rescan") : id \in new_repos}
            \cup {ExtentUid(ThisEntry, x[1], x[2], k) : x \in new_extents, k \in ExtentButtonKeys},
        added_job_ids |-> added_job_ids,
        added_repository_ids |-> added_repository_ids,
        added_sobr_extent_ids |-> added_sobr_extent_ids]

\* button.py 87-182: the entities created and the tracking after the loops.
ButtonCreateOut(d, fs, added_job_ids, added_repository_ids, added_sobr_extent_ids) ==
    LET new_jobs == {id \in SeqIds(d.jobs) : Truthy(id) /\ id \notin added_job_ids}
        new_repos == IF "models.repositories_rescan_spec" \in fs
                     THEN {id \in SeqIds(d.repositories) :
                              Truthy(id) /\ id \notin added_repository_ids}
                     ELSE {}
        new_extents == IF "models.scale_out_extent_maintenance_spec" \in fs
                       THEN ExtentPairs(d) \ added_sobr_extent_ids
                       ELSE {}
    IN [new_entities |->
            {JobUid(ThisEntry, id, k) : id \in new_jobs, k \in JobButtonKeys(fs)}
            \cup {RepositoryUid(ThisEntry, id, "rescan") : id \in new_repos}
            \cup {ExtentUid(ThisEntry, x[1], x[2], k) : x \in new_extents, k \in ExtentButtonKeys},
        added_job_ids |-> added_job_ids \cup new_jobs,
        added_repository_ids |-> added_repository_ids \cup new_repos,
        added_sobr_extent_ids |-> added_sobr_extent_ids \cup new_extents]

\* button.py 238-256 without the category tests of lines 243, 248 and 253:
\* every entry that no active prefix matches is removed.
IsStaleAnyCategory(unique_id, entry_id, jobs_in_data, repos_in_data, extents_in_data) ==
    /\ ~\E id \in jobs_in_data : StartsWith(unique_id, <<entry_id, "job", id>>)
    /\ ~\E id \in repos_in_data : StartsWith(unique_id, <<entry_id, "repository", id>>)
    /\ ~\E x \in extents_in_data :
           StartsWith(unique_id, <<entry_id, "sobr", x[1], "extent", x[2]>>)

\* button.py 238-256: whether the scan removes the registry entry with this
\* unique id, given the ids of coordinator.data.
IsStale(unique_id, entry_id, jobs_in_data, repos_in_data, extents_in_data) ==
    IF StartsWith(unique_id, <<entry_id, "job">>)
    THEN ~\E id \in jobs_in_data : StartsWith(unique_id, <<entry_id, "job", id>>)
    ELSE IF StartsWith(unique_id, <<entry_id, "repository">>)
    THEN ~\E id \in repos_in_data : StartsWith(unique_id, <<entry_id, "repository", id>>)
    ELSE IF StartsWith(unique_id, <<entry_id, "sobr">>) /\ HasExtentToken(unique_id)
    THEN ~\E x \in extents_in_data :
             StartsWith(unique_id, <<entry_id, "sobr", x[1], "extent", x[2]>>)
    ELSE FALSE

\* _remove_stale_button_entities as its docstring words it, removing button
\* entities only: the registry entries of the sensor platform are passed over.
StaleEntitiesButtonsOnly(reg, d) ==
    {e \in reg : /\ e.config_entry_id = ThisEntry
                 /\ e.unique_id[Len(e.unique_id)] \in
                        JobButtonKeys(AllFeatures) \cup {"rescan"} \cup ExtentButtonKeys
                 /\ IsStale(e.unique_id, ThisEntry,
                            {id \in SeqIds(d.jobs) : Truthy(id)},
                            {id \in SeqIds(d.repositories) : Truthy(id)},
                            ExtentPairs(d))}

\* _remove_stale_button_entities, button.py 189-261: the registry entries of
\* this config entry that the scan removes.
StaleEntities(reg, d) ==
    {e \in reg : /\ e.config_entry_id = ThisEntry
                 /\ IsStale(e.unique_id, ThisEntry,
                            {id \in SeqIds(d.jobs) : Truthy(id)},
                            {id \in SeqIds(d.repositories) : Truthy(id)},
                            ExtentPairs(d))}

\* button.py 76-187 with 189-261, as a function of coordinator.data, the
\* registry and the tracking.  async_add_entities registers the new entities;
\* an entity whose unique id the registry already has keeps its entry.
ButtonSyncOut(d, fs, reg, added_job_ids, added_repository_ids, added_sobr_extent_ids) ==
    IF d = NoData
    THEN [new_entities |-> {}, removed |-> {}, registry |-> reg,
          added_job_ids |-> added_job_ids, added_repository_ids |-> added_repository_ids,
          added_sobr_extent_ids |-> added_sobr_extent_ids]
    ELSE
    LET c == ButtonCreateOut(d, fs, added_job_ids, added_repository_ids,
                             added_sobr_extent_ids)
        reg1 == reg \cup {Entity(ThisEntry, u) : u \in c.new_entities}
        stale == StaleEntities(reg1, d)
    IN [new_entities |-> c.new_entities, removed |-> stale, registry |-> reg1 \ stale,
        added_job_ids |-> c.added_job_ids \cap {id \in SeqIds(d.jobs) : Truthy(id)},
        added_repository_ids |->
            c.added_repository_ids \cap {id \in SeqIds(d.repositories) : Truthy(id)},
        added_sobr_extent_ids |-> c.added_sobr_extent_ids \cap ExtentPairs(d)]

\* ------------------------------------------------------ the entry's lifecycle
Listeners == <<"sensor", "button">>

\* One call of the update method by the coordinator, __init__.py 464-470: the
\* snapshot replaces data, UpdateFailed leaves data as it was.
RefreshWith(resp) ==
    LET out == async_update_data(resp, now) IN
    /\ reads' = out.reads
    /\ failed' = out.failed
    /\ pollResult' = out.result
    /\ last_update_success' = (out.result = "ok")
    /\ data' = IF out.result = "ok" THEN out.snapshot ELSE FailedRefreshData(data)
    /\ returned' = IF out.result = "ok" THEN out.snapshot ELSE returned

\* async_setup_entry, __init__.py 31-483: the first refresh and, when it
\* succeeded, the two platform setups (sensor.py 21-135, button.py 34-267),
\* whose first _sync_entities calls run next, each on fresh tracking.  Both
\* platforms are taken here with the coordinator in hand; where each setup
\* looks for it is the matter of SetupSensorPlatform and SetupButtonPlatform.
SetupEntryWith(responses) ==
    /\ ~up /\ pending = <<>>
    /\ \E resp \in responses : RefreshWith(resp)
    /\ up' = (pollResult' = "ok")
    /\ pending' = IF pollResult' = "ok" THEN Listeners ELSE <<>>
    /\ s_added_job_ids' = {} /\ s_added_repository_ids' = {}
    /\ server_added' = FALSE /\ license_added' = FALSE
    /\ b_added_job_ids' = {} /\ b_added_repository_ids' = {}
    /\ b_added_sobr_extent_ids' = {}
    /\ UNCHANGED <<now, pollVars, lastRead, features, registry, devices, componentVars>>

\* A refresh of the running entry, by the timer or on request; the
\* coordinator then calls its listeners in the order they were added.
RefreshFrom(responses) ==
    /\ up /\ pending = <<>>
    /\ \E resp \in responses : RefreshWith(resp)
    /\ pending' = Listeners
    /\ UNCHANGED <<now, pollVars, lastRead, features, up, registry, devices, sensorVars,
                   buttonVars, componentVars>>

\* sensor.py 33-129
SensorSync ==
    /\ pending # <<>> /\ Head(pending) = "sensor"
    /\ LET out == SensorSyncOut(data, s_added_job_ids, s_added_repository_ids,
                                server_added, license_added)
       IN /\ registry' = registry \cup {Entity(ThisEntry, u) : u \in out.new_entities}
          /\ devices' = devices \cup {DeviceOf(u) : u \in out.new_entities}
          /\ s_added_job_ids' = out.added_job_ids
          /\ s_added_repository_ids' = out.added_repository_ids
          /\ server_added' = out.server_added
          /\ license_added' = out.license_added
    /\ pending' = Tail(pending)
    /\ UNCHANGED <<now, data, last_update_success, pollVars, reads, lastRead, failed,
                   pollResult, returned, features, up, buttonVars, componentVars>>

\* button.py 76-261
ButtonSync ==
    /\ pending # <<>> /\ Head(pending) = "button"
    /\ LET out == ButtonSyncOut(data, features, registry, b_added_job_ids,
                                b_added_repository_ids, b_added_sobr_extent_ids)
       IN /\ registry' = out.registry
          /\ devices' = devices \cup {DeviceOf(u) : u \in out.new_entities}
          /\ b_added_job_ids' = out.added_job_ids
          /\ b_added_repository_ids' = out.added_repository_ids
          /\ b_added_sobr_extent_ids' = out.added_sobr_extent_ids
    /\ pending' = Tail(pending)
    /\ UNCHANGED <<now, data, last_update_success, pollVars, reads, lastRead, failed,
                   pollResult, returned, features, up, sensorVars, componentVars>>

\* Home Assistant restarts or the entry is unloaded: the coordinator and the
\* platforms' tracking are gone, the entity registry is kept.
Restart ==
    /\ up /\ pending = <<>>
    /\ up' = FALSE
    /\ data' = NoData /\ returned' = NoData
    /\ last_update_success' = TRUE
    /\ pollResult' = "none"
    /\ reads' = <<>> /\ failed' = {}
    /\ UNCHANGED <<now, pollVars, lastRead, features, registry, devices, sensorVars, buttonVars,
                   pending, componentVars>>

SetupEntry == SetupEntryWith(SyncResponses)
Refresh == RefreshFrom(SyncResponses)

NextSync ==
    \/ SetupEntry
    \/ Refresh
    \/ SensorSync
    \/ ButtonSync
    \/ Restart

SpecSync == Init /\ [][NextSync]_vars

\* The responses of the polls that the coordinator's keeping of its data is
\* checked with, the clock running.
CoordResponses ==
    [jobs : {Raise("ValueError"), Falsy, Malformed, Result(<<GoodJob("j1")>>),
             Result(<<GoodJob("j1"), RawJob("j2", UNSET, "ValueError")>>)},
     server : {Falsy, Result(RawServer("none"))},
     license : {Result(RawLicense("none"))},
     repositories : {Raise("AttributeError"), Result(<<RawRepo(Uuid("r1"), "none")>>)},
     states : {Result(<<RawState("r1", "True")>>)},
     sobrs : {Falsy}]

\* Time passes between two polls.
Tick ==
    /\ pending = <<>> /\ now < MaxTime
    /\ now' = now + 1
    /\ UNCHANGED <<data, last_update_success, pollVars, reads, lastRead, failed,
                   pollResult, returned, syncVars>>

SetupEntryTimed == SetupEntryWith(CoordResponses)
RefreshTimed == RefreshFrom(CoordResponses)

NextCoord ==
    \/ Tick
    \/ SetupEntryTimed
    \/ RefreshTimed
    \/ SensorSync
    \/ ButtonSync
    \/ Restart

SpecCoord == InitPoll /\ [][NextCoord]_vars

\* ================================================================= claims

\* VeeamServerLastSuccessfulPollSensor.native_value, sensor.py 473-478
LastSuccessfulPollValue(d) ==
    IF d = NoData THEN NoneTime
    ELSE IF "diagnostics" \notin DOMAIN d THEN NoneTime
    ELSE d.diagnostics.last_successful_poll

\* C1: after a poll that ended in UpdateFailed the coordinator still holds the
\* snapshot of the most recent successful poll, and the Last Successful Poll
\* sensor still reports that snapshot's last_successful_poll.
C1_FailedPollKeepsSnapshot ==
    pollResult = "UpdateFailed" =>
        /\ data = returned
        /\ LastSuccessfulPollValue(data) =
              (IF returned = NoData THEN NoneTime
               ELSE returned.diagnostics.last_successful_poll)

\* A poll failed later than the successful poll whose snapshot is still held.
C1_Witness ==
    /\ pollResult = "UpdateFailed"
    /\ data # NoData
    /\ LastSuccessfulPollValue(data) < now
    /\ ~last_update_success

\* C2: when the jobs read raised or returned a falsy response the poll ended in
\* UpdateFailed having issued the jobs read alone, and no snapshot was returned
\* or stored.
C2_JobsFailureFailsPoll ==
    (lastRead.section = "jobs" /\ lastRead.resp.kind \in {"raise", "falsy"}) =>
        /\ pollResult = "UpdateFailed"
        /\ pc = "idle"
        /\ reads = <<"jobs">>
        /\ returned = NoData
        /\ data = NoData

C2_Witness ==
    /\ lastRead.section = "jobs" /\ lastRead.resp.kind = "falsy"
    /\ pollResult = "UpdateFailed"
    /\ reads = <<"jobs">>

\* C7: a returned snapshot has connected and health_ok true and the time of
\* its poll as last_successful_poll; health_ok is true only once the poll got
\* past the jobs read and succeeded, and a poll that failed has set no
\* last_successful_poll.
C7_DiagnosticsOfSnapshot ==
    /\ pollResult = "ok" =>
          /\ returned # NoData
          /\ returned.diagnostics.connected
          /\ returned.diagnostics.health_ok
          /\ returned.diagnostics.last_successful_poll # NoneTime
          /\ returned.diagnostics.last_successful_poll = now
          /\ "jobs" \in {reads[i] : i \in 1..Len(reads)}
    /\ diag.health_ok => pollResult = "ok"
    /\ pollResult \in {"running", "UpdateFailed"} =>
          /\ diag.last_successful_poll = NoneTime
          /\ returned = NoData
          /\ LastSuccessfulPollValue(data) = NoneTime

\* A poll succeeded after an earlier one failed, with a section of it failed.
C7_Witness ==
    /\ pollResult = "ok"
    /\ returned.diagnostics.last_successful_poll > 1
    /\ failed # {}
    /\ diag.health_ok

\* The records of a raw list that are well formed, in order.
Good(records) == SelectSeq(records, LAMBDA r : r.exc = "none")
AllGood(records) == \A i \in 1..Len(records) : records[i].exc = "none"
\* The records are well formed or raise what the per-record handlers name.
Malformedness(records) ==
    \A i \in 1..Len(records) : records[i].exc \in {"none"} \cup PerRecordCaught
Ids(list) == [i \in 1..Len(list) |-> list[i].id]
RawIds(records) == [i \in 1..Len(records) |-> get_uuid_value(records[i].id)]

\* C3: a poll whose jobs read succeeded is not aborted by a failed best-effort
\* section: it returns a snapshot with the jobs list, health_ok true, and None
\* or the empty list for every section that failed.
C3_BestEffortFailureContained ==
    pollResult = "ok" =>
        /\ data # NoData
        /\ data.diagnostics.health_ok
        /\ data.jobs = jobs_list
        /\ "server_info" \in failed => data.server_info = NoData
        /\ "license" \in failed => data.license_info = NoData
        /\ "repositories" \in failed => data.repositories = <<>>
        /\ "sobrs" \in failed => data.sobrs = <<>>

\* C4: the non-jobs reads are independent; when the repositories read gave
\* well-formed records and only the repository-states read failed, the
\* repositories list has one record per repository read, in order, without
\* the state-derived fields.
C4_StatesFailureKeepsRepositories ==
    (/\ lastRead.section = "repositories"
     /\ lastRead.resp.kind = "result"
     /\ AllGood(lastRead.resp.data)
     /\ lastRead.states.kind \in {"raise", "malformed"}) =>
        /\ Ids(repositories_list) = RawIds(lastRead.resp.data)
        /\ \A i \in 1..Len(repositories_list) :
              /\ "is_online" \notin DOMAIN repositories_list[i]
              /\ repositories_list[i].is_accessible = "None"

\* C5: a best-effort section that failed, at its read or while its records
\* were normalized, has the value None (server info, license) or the empty
\* list (repositories, scale-out repositories).
C5_FailedSectionIsEmpty ==
    /\ "server_info" \in failed => server_info = NoData
    /\ "license" \in failed => license_info = NoData
    /\ "repositories" \in failed => repositories_list = <<>>
    /\ "sobrs" \in failed => sobr_list = <<>>

\* The extents a SOBR record is expected to keep: its well-formed ones.
ExpectedSobrs(records) ==
    [i \in 1..Len(Good(records)) |->
        LET sobr == Good(records)[i] IN
        IF sobr.performance_tier = NoTier THEN <<>>
        ELSE RawIds(Good(sobr.performance_tier.performance_extents))]
SobrExtentIds(list) ==
    [i \in 1..Len(list) |->
        IF "extents" \in DOMAIN list[i] THEN Ids(list[i].extents) ELSE <<>>]

\* C6: in the jobs, the repositories, the scale-out repositories and the
\* extents of a scale-out repository, a malformed record is the only record
\* dropped: the output is the other records in source order, the poll does not
\* fail, and a malformed extent drops neither its SOBR nor its sibling extents.
C6_OnlyMalformedRecordDropped ==
    /\ (/\ lastRead.section = "jobs" /\ lastRead.resp.kind = "result"
        /\ Malformedness(lastRead.resp.data)) =>
          /\ pollResult # "UpdateFailed"
          /\ Ids(jobs_list) = RawIds(Good(lastRead.resp.data))
    /\ (/\ lastRead.section = "repositories" /\ lastRead.resp.kind = "result"
        /\ Malformedness(lastRead.resp.data)
        /\ lastRead.states.kind \in {"result", "falsy"}) =>
          Ids(repositories_list) = RawIds(Good(lastRead.resp.data))
    /\ (/\ lastRead.section = "sobrs" /\ lastRead.resp.kind = "result"
        /\ Malformedness(lastRead.resp.data)
        /\ \A i \in 1..Len(lastRead.resp.data) :
              lastRead.resp.data[i].performance_tier # NoTier =>
                 Malformedness(lastRead.resp.data[i].performance_tier.performance_extents)) =>
          /\ Ids(sobr_list) = RawIds(Good(lastRead.resp.data))
          /\ SobrExtentIds(sobr_list) = ExpectedSobrs(lastRead.resp.data)

\* ------------------------------------------------------------ reconciliation
\* The object a registry entry of this config entry is keyed to, read off the
\* tokens of its unique id.
KeyedToJob(e, id) ==
    /\ e.config_entry_id = ThisEntry
    /\ Len(e.unique_id) = 4 /\ e.unique_id[2] = "job" /\ e.unique_id[3] = id
KeyedToRepository(e, id) ==
    /\ e.config_entry_id = ThisEntry
    /\ Len(e.unique_id) = 4 /\ e.unique_id[2] = "repository" /\ e.unique_id[3] = id
KeyedToExtent(e, x) ==
    /\ e.config_entry_id = ThisEntry
    /\ Len(e.unique_id) = 6 /\ e.unique_id[2] = "sobr" /\ e.unique_id[3] = x[1]
    /\ e.unique_id[4] = "extent" /\ e.unique_id[5] = x[2]

\* The entry is keyed to a job, repository or extent that d does not hold.
KeyedToAbsent(e, d) ==
    \/ \E id \in JobIds : KeyedToJob(e, id) /\ id \notin SeqIds(d.jobs)
    \/ \E id \in RepoIds : KeyedToRepository(e, id) /\ id \notin SeqIds(d.repositories)
    \/ \E x \in SobrIds \X ExtentIds : KeyedToExtent(e, x) /\ x \notin ExtentPairs(d)

\* C9: once both callbacks have run on a snapshot, running them again on the
\* same snapshot, tracking and registry creates no entity and removes none.
C9_ReconcileIdempotent ==
    (up /\ pending = <<>>) =>
        LET s == SensorSyncOut(data, s_added_job_ids, s_added_repository_ids,
                               server_added, license_added)
            b == ButtonSyncOut(data, features, registry, b_added_job_ids,
                               b_added_repository_ids, b_added_sobr_extent_ids)
        IN /\ s.new_entities = {}
           /\ b.new_entities = {}
           /\ b.removed = {}
           /\ b.registry = registry

\* Both callbacks have run on a snapshot that lost a job they had materialized
\* and that holds jobs, a repository and extents they created entities for.
C9_Witness ==
    /\ up /\ pending = <<>> /\ data # NoData
    /\ "j1" \in s_added_job_ids /\ "j1" \notin SeqIds(data.jobs)
    /\ "j2" \in b_added_job_ids
    /\ b_added_sobr_extent_ids # {}
    /\ \E e \in registry : KeyedToRepository(e, "r1")

\* C10: the reconcile that follows a snapshot removes from the registry
\* exactly the entities of this config entry keyed to a job (repository,
\* extent) missing from the snapshot: none keyed to an object still present,
\* no server or license entity, no entity of another config entry.
C10_RemovesExactlyMissing ==
    [][(pending # <<>> /\ Head(pending) = "button" /\ pending' = Tail(pending)
        /\ data # NoData) =>
          /\ registry \ registry' = {e \in registry : KeyedToAbsent(e, data)}
          /\ \A e \in registry' : ~KeyedToAbsent(e, data)]_vars

\* Job j1, materialized by both platforms, is gone from the snapshot and from
\* the registry, while the entities of job j2, of the server and of the other
\* config entry are still registered.
C10_Witness ==
    /\ up /\ pending = <<>> /\ data # NoData
    /\ "j1" \in s_added_job_ids
    /\ "j1" \notin SeqIds(data.jobs) /\ "j2" \in SeqIds(data.jobs)
    /\ ~\E e \in registry : KeyedToJob(e, "j1")
    /\ Entity(ThisEntry, JobUid(ThisEntry, "j2", "status")) \in registry
    /\ Entity(ThisEntry, JobUid(ThisEntry, "j2", "start")) \in registry
    /\ Entity(ThisEntry, ServerUid(ThisEntry, "name")) \in registry
    /\ ForeignEntity \in registry

\* C11: stale removal works from the persisted registry: the first reconcile
\* of a fresh process, whose tracking sets are empty, removes every sensor and
\* button entity of this config entry that the registry holds for a job,
\* repository or extent absent from the first snapshot.
C11_FreshProcessRemovesPersisted ==
    [][(/\ pending = <<"button">> /\ pending' = <<>>
        /\ b_added_job_ids = {} /\ b_added_repository_ids = {}
        /\ b_added_sobr_extent_ids = {}
        /\ data # NoData) =>
          \A e \in registry : KeyedToAbsent(e, data) => e \notin registry']_vars

\* A fresh process about to run its first reconcile while the registry holds
\* a sensor and a button of job j1, of repository r1 and of extent (s1, x2),
\* none of which the first snapshot tracks for j1.
C11_Witness ==
    /\ up /\ pending = <<"button">> /\ data # NoData
    /\ b_added_job_ids = {} /\ b_added_repository_ids = {}
    /\ b_added_sobr_extent_ids = {}
    /\ "j1" \notin s_added_job_ids /\ "j1" \notin SeqIds(data.jobs)
    /\ Entity(ThisEntry, JobUid(ThisEntry, "j1", "status")) \in registry
    /\ Entity(ThisEntry, JobUid(ThisEntry, "j1", "start")) \in registry
    /\ \E e \in registry : KeyedToAbsent(e, data) /\ ~\E id \in JobIds : KeyedToJob(e, id)

\* C12: after a reconcile no entity is left for a repository that is missing
\* from the snapshot, and no device of the integration is left in the device
\* registry without an entity on it.
C12_NoOrphanedDevice ==
    (up /\ pending = <<>> /\ data # NoData) =>
        /\ \A e \in registry :
              ~\E id \in RepoIds : KeyedToRepository(e, id) /\ id \notin SeqIds(data.repositories)
        /\ \A dev \in devices : \E e \in registry : DeviceOf(e.unique_id) = dev

\* C13: a job or repository id that is in the snapshot has, after the
\* reconcile, its sensor entities and its button entities in the registry,
\* also when the id had been missing from an earlier snapshot and its entities
\* had been removed: a re-appearance creates them again.
C13_ReappearanceCreatesAgain ==
    (up /\ pending = <<>> /\ data # NoData) =>
        /\ \A id \in {x \in SeqIds(data.jobs) : Truthy(x)} :
              /\ \A k \in JobSensorKeys :
                    Entity(ThisEntry, JobUid(ThisEntry, id, k)) \in registry
              /\ \A k \in JobButtonKeys(features) :
                    Entity(ThisEntry, JobUid(ThisEntry, id, k)) \in registry
        /\ \A id \in {x \in SeqIds(data.repositories) : Truthy(x)} :
              /\ \A k \in RepositorySensorKeys :
                    Entity(ThisEntry, RepositoryUid(ThisEntry, id, k)) \in registry
              /\ "models.repositories_rescan_spec" \in features =>
                    Entity(ThisEntry, RepositoryUid(ThisEntry, id, "rescan")) \in registry

\* ============================================================ button presses
\* The ten write actions, button.py 270-991.
WriteActions == {"start", "stop", "retry", "enable", "disable", "rescan",
                 "enable_sealed", "disable_sealed",
                 "enable_maintenance", "disable_maintenance"}
\* The presses that first import a spec model and build the request body
\* (button.py 319-331, 429-442, 783-788, ...); enable and disable job do not.
ImportsSpec == WriteActions \ {"enable", "disable"}
\* The presses that look at the result for an error_code, button.py 797, 853, 913.
ChecksErrorCode == {"start", "stop", "retry"}
\* importlib.import_module / getattr / the body constructor.
ImportOutcomes == {"ok", "ImportError", "AttributeError"}
\* veeam_client.api(...) in a thread.
ApiOutcomes == {"ok", "ConnectionError"}
\* veeam_client.call(...): an acknowledgement, a result carrying error_code,
\* or an exception.
CallOutcomes == {"ack", "error_payload", "ConnectionError", "PermissionError"}

Pressing(action, at, imp, call, outcome, log) ==
    [pc |-> at, action |-> action, import |-> imp, call |-> call,
     outcome |-> outcome, log |-> log]

\* async_press is entered.
PressBegin ==
    /\ press.pc \in {"idle", "done"}
    /\ \E action \in WriteActions :
          press' = Pressing(action, IF action \in ImportsSpec THEN "import" ELSE "api",
                            "none", "none", "running", <<>>)
    /\ UNCHANGED <<now, data, last_update_success, pollVars, reads, lastRead, failed,
                   pollResult, returned, features, up, registry, devices, sensorVars,
                   buttonVars, pending, setup, overlap, tm, ensure, flow, configured>>

\* The first try block of a press: an ImportError or AttributeError is logged
\* and the press returns (button.py 328-332, 437-442, 786-788).
PressImport ==
    /\ press.pc = "import"
    /\ \E imp \in ImportOutcomes :
          press' = IF imp = "ok"
                   THEN [press EXCEPT !.pc = "api", !.import = imp]
                   ELSE [press EXCEPT !.pc = "done", !.import = imp, !.outcome = "returned"]
    /\ UNCHANGED <<now, data, last_update_success, pollVars, reads, lastRead, failed,
                   pollResult, returned, features, up, registry, devices, sensorVars,
                   buttonVars, pending, setup, overlap, tm, ensure, flow, configured>>

\* await asyncio.to_thread(self._veeam_client.api, ...), inside the second
\* try block: an exception becomes HomeAssistantError.
PressApi ==
    /\ press.pc = "api"
    /\ \E api \in ApiOutcomes :
          press' = IF api = "ok"
                   THEN [press EXCEPT !.pc = "call"]
                   ELSE [press EXCEPT !.pc = "done", !.outcome = "HomeAssistantError"]
    /\ UNCHANGED <<now, data, last_update_success, pollVars, reads, lastRead, failed,
                   pollResult, returned, features, up, registry, devices, sensorVars,
                   buttonVars, pending, setup, overlap, tm, ensure, flow, configured>>

\* What a press does with the outcome of the vendor call: an exception becomes
\* HomeAssistantError; start, stop and retry raise it for a result that has
\* error_code; every other result goes on to the refresh request.
AfterCall(action, call) ==
    IF call \notin {"ack", "error_payload"} THEN "HomeAssistantError"
    ELSE IF call = "error_payload" /\ action \in ChecksErrorCode THEN "HomeAssistantError"
    ELSE "refresh"

\* await self._veeam_client.call(...)
PressCall ==
    /\ press.pc = "call"
    /\ \E call \in CallOutcomes :
          press' = IF AfterCall(press.action, call) = "refresh"
                   THEN [press EXCEPT !.pc = "refresh", !.call = call,
                                      !.log = Append(@, "call")]
                   ELSE [press EXCEPT !.pc = "done", !.call = call,
                                      !.log = Append(@, "call"),
                                      !.outcome = "HomeAssistantError"]
    /\ UNCHANGED <<now, data, last_update_success, pollVars, reads, lastRead, failed,
                   pollResult, returned, features, up, registry, devices, sensorVars,
                   buttonVars, pending, setup, overlap, tm, ensure, flow, configured>>

\* await self.coordinator.async_request_refresh(), then the press returns.
PressRefresh ==
    /\ press.pc = "refresh"
    /\ press' = [press EXCEPT !.pc = "done", !.log = Append(@, "refresh"),
                               !.outcome = "returned"]
    /\ UNCHANGED <<now, data, last_update_success, pollVars, reads, lastRead, failed,
                   pollResult, returned, features, up, registry, devices, sensorVars,
                   buttonVars, pending, setup, overlap, tm, ensure, flow, configured>>

NextPress ==
    \/ PressBegin
    \/ PressImport
    \/ PressApi
    \/ PressCall
    \/ PressRefresh

SpecPress == InitPoll /\ [][NextPress]_vars

\* The refresh requests of a press.
Refreshes(log) == Len(SelectSeq(log, LAMBDA ev : ev = "refresh"))

\* C14: a press that did not end in a successful vendor call raises
\* HomeAssistantError and requests no refresh; a press whose vendor call
\* succeeded requests exactly one refresh, after the call has completed.
C14_FailedPressRaises ==
    /\ press.pc = "done" =>
          IF press.call = "ack"
          THEN press.log = <<"call", "refresh">>
          ELSE press.outcome = "HomeAssistantError" /\ Refreshes(press.log) = 0
    /\ press.pc \in {"import", "api", "call", "refresh"} =>
          (Refreshes(press.log) > 0 => press.call = "ack")

\* C15: for every write action, a vendor call that returns a result carrying
\* error_code makes the press raise HomeAssistantError and request no refresh.
C15_ErrorPayloadRaises ==
    (press.pc \in {"refresh", "done"} /\ press.call = "error_payload") =>
        /\ press.pc = "done"
        /\ press.outcome = "HomeAssistantError"
        /\ Refreshes(press.log) = 0

\* ============================================================ token manager
\* In this part a unit of the clock is 30 seconds.
\* timedelta(minutes=1), token_manager.py 72
BufferTime == 2
\* getattr(result, "expires_in", 900), token_manager.py 139 and 193
DefaultExpiresIn == 30

\* _needs_refresh without the buffer of line 72.
_needs_refresh_at_expiry(t, at) ==
    IF t.access_token = "None" THEN TRUE
    ELSE IF t.token_expires_at = NoneTime THEN TRUE
    ELSE at >= t.token_expires_at

\* token_manager.py 59-73
_needs_refresh(t, at) ==
    IF t.access_token = "None" THEN TRUE
    ELSE IF t.token_expires_at = NoneTime THEN TRUE
    ELSE at >= t.token_expires_at - BufferTime

\* What create_token.sync gives in the executor job: nothing, a result (whose
\* access token may be empty and which may lack expires_in), or an exception,
\* a connection failure or the error the library raises for a 401.
TokenResults ==
    [kind : {"result"}, access_token : {"None", "a1", "a2"},
     refresh_token : {"None", "r2"}, expires_in : {1, 3}]
    \cup [kind : {"result"}, access_token : {"a1"}, refresh_token : {"None", "r1"}]
    \cup {[kind |-> "none"]}
    \cup [kind : {"raise"}, exc : {"ConnectionError", "UnexpectedStatus"}]

\* if result and result.access_token, token_manager.py 132 and 188
HasToken(result) == result.kind = "result" /\ result.access_token # "None"

ExpiresAt(result, at) ==
    at + (IF "expires_in" \in DOMAIN result THEN result.expires_in ELSE DefaultExpiresIn)

\* What _update_authenticated_client does, token_manager.py 205-215: the
\* import of the client module and the constructor give the client or raise.
ClientBuilds == {"ok", "ImportError"}

\* _update_authenticated_client, token_manager.py 205-215: the client
\* afterwards; when it raises, the client is the one there was.
UpdatedClient(t, access_token, build) ==
    IF build = "ok" THEN access_token ELSE t.authenticated_client

\* _refresh_token_async, token_manager.py 96-149: the fields afterwards.
\* The token, the refresh token and the expiry are assigned one after the
\* other (133-140) before the client is built (143).
RefreshedSession(t, result, at, build) ==
    IF HasToken(result)
    THEN [access_token |-> result.access_token,
          refresh_token |-> IF result.refresh_token # "None" THEN result.refresh_token
                            ELSE t.refresh_token,
          token_expires_at |-> ExpiresAt(result, at),
          authenticated_client |-> UpdatedClient(t, result.access_token, build)]
    ELSE t

\* _authenticate_async, token_manager.py 151-203: the fields afterwards.
AuthenticatedSession(t, result, at, build) ==
    IF HasToken(result)
    THEN [access_token |-> result.access_token,
          refresh_token |-> result.refresh_token,
          token_expires_at |-> ExpiresAt(result, at),
          authenticated_client |-> UpdatedClient(t, result.access_token, build)]
    ELSE t

\* An attempt returns True when it got a token and built the client with it;
\* every exception is caught and the attempt returns False, token_manager.py
\* 132-149 and 188-203.
Obtained(result, build) == HasToken(result) /\ build = "ok"

\* Why an attempt got no token: the server rejected the credentials (no
\* token in the answer, or a 401 raised as an error) or could not be reached.
Cause(result) ==
    IF result.kind = "raise" /\ result.exc = "ConnectionError" THEN "transport"
    ELSE "authentication"

\* Why an attempt returned False.
FailureCause(result, build) == IF HasToken(result) THEN "client" ELSE Cause(result)

Calling(at, before, step, log, result, cause) ==
    [pc |-> step, at |-> at, before |-> before, log |-> log, result |-> result,
     cause |-> cause]

\* A stale call going to the username/password request at once.
FirstAttemptPassword(t) == "authenticate"

\* The step a stale call takes first, token_manager.py 85-94.
FirstAttempt(t) == IF t.refresh_token # "None" THEN "refresh" ELSE "authenticate"

\* ensure_valid_token is called, token_manager.py 45-57 and 85.
EnsureValidToken ==
    /\ ensure.pc \in {"idle", "done"}
    /\ ensure' = IF _needs_refresh(tm, now)
               THEN Calling(now, tm, FirstAttempt(tm), <<>>, "none", "none")
               ELSE Calling(now, tm, "done", <<>>, "True", "none")
    /\ UNCHANGED <<now, data, last_update_success, pollVars, reads, lastRead, failed,
                   pollResult, returned, features, up, registry, devices, sensorVars,
                   buttonVars, pending, setup, overlap, press, tm, flow, configured>>

\* await self._refresh_token_async(hass), token_manager.py 87-90.
TokenRefresh ==
    /\ ensure.pc = "refresh"
    /\ \E result \in TokenResults, build \in ClientBuilds :
          /\ tm' = RefreshedSession(tm, result, now, build)
          /\ ensure' = IF Obtained(result, build)
                     THEN [ensure EXCEPT !.pc = "done", !.log = Append(@, "refresh"),
                                       !.result = "True"]
                     ELSE [ensure EXCEPT !.pc = "authenticate", !.log = Append(@, "refresh"),
                                       !.cause = FailureCause(result, build)]
    /\ UNCHANGED <<now, data, last_update_success, pollVars, reads, lastRead, failed,
                   pollResult, returned, features, up, registry, devices, sensorVars,
                   buttonVars, pending, setup, overlap, press, flow, configured>>

\* What _authenticate_async returns, token_manager.py 188-203: True with a
\* token, False for an answer without one and for every exception.
AuthenticateOutcome(result, build) == IF Obtained(result, build) THEN "True" ELSE "False"

\* return await self._authenticate_async(hass), token_manager.py 94.
TokenAuthenticate ==
    /\ ensure.pc = "authenticate"
    /\ \E result \in TokenResults, build \in ClientBuilds :
          /\ tm' = AuthenticatedSession(tm, result, now, build)
          /\ ensure' = [ensure EXCEPT !.pc = "done", !.log = Append(@, "password"),
                                      !.result = AuthenticateOutcome(result, build),
                                      !.cause = IF Obtained(result, build) THEN "none"
                                                ELSE FailureCause(result, build)]
    /\ UNCHANGED <<now, data, last_update_success, pollVars, reads, lastRead, failed,
                   pollResult, returned, features, up, registry, devices, sensorVars,
                   buttonVars, pending, setup, overlap, press, flow, configured>>

NextToken ==
    \/ Tick
    \/ EnsureValidToken
    \/ TokenRefresh
    \/ TokenAuthenticate

SpecToken == InitPoll /\ [][NextToken]_vars

\* The executor job of a request returns: an awaited attempt is completed.
SpecTokenFair ==
    SpecToken /\ WF_vars(TokenRefresh) /\ WF_vars(TokenAuthenticate)

\* get_authenticated_client, token_manager.py 217-223
get_authenticated_client(t) == t.authenticated_client

\* The session the call found was stale: no access token, or no recorded
\* expiry, or the call was made no earlier than one minute before the expiry.
FoundStale(c) ==
    \/ c.before.access_token = "None"
    \/ c.before.token_expires_at = NoneTime
    \/ c.at >= c.before.token_expires_at - BufferTime

AttemptOrder(c) ==
    /\ c.pc = "refresh" => c.log = <<>> /\ c.before.refresh_token # "None"
    /\ c.pc = "authenticate" =>
          IF c.before.refresh_token # "None"
          THEN c.log = <<"refresh">>
          ELSE c.log = <<>>
    /\ (c.pc = "done" /\ c.log # <<>>) =>
          IF c.before.refresh_token # "None"
          THEN c.log \in {<<"refresh">>, <<"refresh", "password">>}
          ELSE c.log = <<"password">>

\* C17: a stale call sends the refresh request first when a refresh token is
\* held and the username/password request only after that refresh failed,
\* only the username/password request otherwise, at most one of each, and the
\* call terminates.
C17_RefreshThenPassword ==
    /\ [](ensure.pc # "idle" => AttemptOrder(ensure))
    /\ (ensure.pc \in {"refresh", "authenticate"}) ~> (ensure.pc = "done")

\* A call that held a refresh token, whose refresh failed and which then sent
\* the username/password request.
C17_Witness ==
    /\ ensure.pc = "done"
    /\ ensure.before.refresh_token # "None"
    /\ ensure.log = <<"refresh", "password">>

\* ============================================================== config flow
Hosts == {"h1", "h2", "h3"}

\* The dynamic imports of validate_input, config_flow.py 39-77.
FlowImportOutcomes == {"ok", "ImportError", "AttributeError"}

\* What the connection test of validate_input gets from create_token.sync in
\* the executor job, config_flow.py 84-97.
ConnResults ==
    [kind : {"result"}, access_token : {"None", "a1"}]
    \cup {[kind |-> "none"]}
    \cup [kind : {"raise"}, exc : {"PermissionError", "ConnectionError", "UnexpectedStatus"}]

\* validate_input, config_flow.py 28-113: "ok" or the exception it raises.
\* An ImportError becomes ConnectionError (53-77), any other exception of the
\* imports propagates; a missing token raises PermissionError (99-100), which
\* like ConnectionError is raised again (102-107); every other exception of
\* the connection test becomes ConnectionError (108-110).
validate_input(imp, conn) ==
    IF imp = "ImportError" THEN "ConnectionError"
    ELSE IF imp # "ok" THEN imp
    ELSE IF conn.kind = "raise"
         THEN (IF conn.exc = "PermissionError" THEN "PermissionError" ELSE "ConnectionError")
    ELSE IF ~HasToken(conn) THEN "PermissionError"
    ELSE "ok"

\* The except clauses of async_step_user, config_flow.py 136-144.
ErrorsBase(outcome) ==
    IF outcome = "PermissionError" THEN "invalid_auth"
    ELSE IF outcome = "ConnectionError" THEN "cannot_connect"
    ELSE "unknown"

\* The state of one user step; an aborted flow carries the reason of
\* _abort_if_unique_id_configured, config_flow.py 134.
FlowAt(step, host, imp, conn, errors) ==
    [pc |-> step, host |-> host, import |-> imp, conn |-> conn, errors |-> errors,
     reason |-> IF step = "aborted" THEN "already_configured" ELSE "none"]

\* async_step_user(None): the form is shown without errors, config_flow.py 129, 147-162.
FlowShow ==
    /\ flow.pc \in {"none", "created", "aborted"}
    /\ flow' = FlowAt("form", "none", "none", [kind |-> "unset"], "none")
    /\ UNCHANGED <<now, data, last_update_success, pollVars, reads, lastRead, failed,
                   pollResult, returned, features, up, registry, devices, sensorVars,
                   buttonVars, pending, setup, overlap, press, tm, ensure, configured>>

\* A user step that goes on to validate_input without looking at the
\* configured unique ids.
FlowSubmitUnchecked ==
    /\ flow.pc = "form"
    /\ \E host \in Hosts :
          flow' = FlowAt("import", host, "none", [kind |-> "unset"], "none")
    /\ UNCHANGED <<now, data, last_update_success, pollVars, reads, lastRead, failed,
                   pollResult, returned, features, up, registry, devices, sensorVars,
                   buttonVars, pending, setup, overlap, press, tm, ensure, configured>>

\* async_step_user(user_input) up to the call of validate_input: a host:port
\* that is configured already aborts the flow, config_flow.py 131-134.
FlowSubmit ==
    /\ flow.pc = "form"
    /\ \E host \in Hosts :
          flow' = IF host \in configured
                  THEN FlowAt("aborted", host, "none", [kind |-> "unset"], "none")
                  ELSE FlowAt("import", host, "none", [kind |-> "unset"], "none")
    /\ UNCHANGED <<now, data, last_update_success, pollVars, reads, lastRead, failed,
                   pollResult, returned, features, up, registry, devices, sensorVars,
                   buttonVars, pending, setup, overlap, press, tm, ensure, configured>>

\* validate_input up to the connection test; a failed import ends it and the
\* form is shown again with the error.
FlowImport ==
    /\ flow.pc = "import"
    /\ \E imp \in FlowImportOutcomes :
          flow' = IF imp = "ok"
                  THEN [flow EXCEPT !.pc = "connect", !.import = imp]
                  ELSE [flow EXCEPT !.pc = "form", !.import = imp,
                                    !.errors = ErrorsBase(validate_input(imp, flow.conn))]
    /\ UNCHANGED <<now, data, last_update_success, pollVars, reads, lastRead, failed,
                   pollResult, returned, features, up, registry, devices, sensorVars,
                   buttonVars, pending, setup, overlap, press, tm, ensure, configured>>

\* await hass.async_add_executor_job(_test_connection) and the rest of the
\* step: the entry is created or the form is shown again with the error.
FlowConnect ==
    /\ flow.pc = "connect"
    /\ \E conn \in ConnResults :
          LET outcome == validate_input(flow.import, conn) IN
          IF outcome = "ok"
          THEN /\ flow' = [flow EXCEPT !.pc = "created", !.conn = conn]
               /\ configured' = configured \cup {flow.host}
          ELSE /\ flow' = [flow EXCEPT !.pc = "form", !.conn = conn,
                                        !.errors = ErrorsBase(outcome)]
               /\ UNCHANGED configured
    /\ UNCHANGED <<now, data, last_update_success, pollVars, reads, lastRead, failed,
                   pollResult, returned, features, up, registry, devices, sensorVars,
                   buttonVars, pending, setup, overlap, press, tm, ensure>>

NextFlow ==
    \/ FlowShow
    \/ FlowSubmit
    \/ FlowImport
    \/ FlowConnect

SpecFlow == InitPoll /\ [][NextFlow]_vars

\* Session acquisition by the token manager and by the config flow.
NextAuth ==
    \/ EnsureValidToken
    \/ TokenRefresh
    \/ TokenAuthenticate
    \/ FlowShow
    \/ FlowSubmit
    \/ FlowImport
    \/ FlowConnect

SpecAuth == InitPoll /\ [][NextAuth]_vars

\* C18: a failed session acquisition tells a credential rejection apart from
\* a transport failure: the outcome a failure of one cause gave to the caller
\* is not the outcome of any failure of the other cause, in
\* ensure_valid_token and in validate_input.
C18_CausesToldApart ==
    /\ (ensure.pc = "done" /\ ensure.result = "False") =>
          \A r \in TokenResults :
              (~HasToken(r) /\ Cause(r) # ensure.cause) =>
                  AuthenticateOutcome(r, "ok") # ensure.result
    /\ (flow.pc = "form" /\ flow.conn.kind # "unset") =>
          \A c \in ConnResults :
              (~HasToken(c) /\ Cause(c) # Cause(flow.conn)) =>
                  validate_input("ok", c) # validate_input("ok", flow.conn)

\* C19: after a call in which the refresh and the username/password attempt
\* both failed, the call has reported failure, no access token and no
\* authenticated client is left, and the session is stale for the next call.
C19_FailureInvalidates ==
    (/\ ensure.pc = "done" /\ ensure.log = <<"refresh", "password">>
     /\ ensure.cause # "none") =>
        /\ ensure.result = "False"
        /\ tm.access_token = "None"
        /\ get_authenticated_client(tm) = "None"
        /\ _needs_refresh(tm, now)

\* C20: in the user step a PermissionError of the connection test gives
\* invalid_auth, a ConnectionError cannot_connect and any other exception of
\* the connection attempt unknown; the form is shown again and no entry is
\* created, and an entry is created only when the connection test succeeded.
C20_UserStepErrors ==
    /\ (flow.pc \in {"form", "created"} /\ flow.conn.kind = "raise") =>
          /\ flow.pc = "form"
          /\ flow.host \notin configured
          /\ flow.errors = IF flow.conn.exc = "PermissionError" THEN "invalid_auth"
                           ELSE IF flow.conn.exc = "ConnectionError" THEN "cannot_connect"
                           ELSE "unknown"
    /\ flow.pc = "created" => HasToken(flow.conn)

\* C21: a user step submitted with a host:port that is configured already
\* aborts with reason already_configured before any import, connection or
\* authentication attempt; validate_input only ever runs for a host:port that
\* is not configured, and an entry is only ever created for such a host:port.
C21_AlreadyConfiguredAborts ==
    /\ [](flow.pc = "aborted" =>
            /\ flow.host \in configured
            /\ flow.reason = "already_configured"
            /\ flow.import = "none" /\ flow.conn.kind = "unset")
    /\ [](flow.pc \in {"import", "connect"} => flow.host \notin configured)
    /\ [][(flow.pc = "form" /\ flow'.pc # "form" /\ flow'.host \in configured) =>
              flow'.pc = "aborted"]_vars
    /\ [][(flow.pc # "created" /\ flow'.pc = "created") =>
              (flow.host \notin configured /\ configured' = configured \cup {flow.host})]_vars

\* A second user step for a host:port configured by an earlier one was aborted.
C21_Witness ==
    /\ flow.pc = "aborted"
    /\ flow.host \in configured
    /\ Cardinality(configured) = 1

\* ================================================================== setup
\* importlib.import_module of the types module, __init__.py 41-48.
TypesImportOutcomes == {"ok", "ImportError"}
\* await veeam_client.connect(), __init__.py 64-68: every Exception is caught.
ConnectOutcomes == {"ok", "ConnectionError", "PermissionError"}

\* A run that goes on whatever the step gave.
SetupAfterIgnoringFailure(run, step, outcome, next) ==
    [run EXCEPT !.pc = next, ![step] = outcome]

\* The two guarded steps of async_setup_entry, __init__.py 41-48 and 64-68:
\* a failure is logged and the run returns False.
SetupAfter(run, step, outcome, next) ==
    IF outcome = "ok"
    THEN [run EXCEPT !.pc = next, ![step] = outcome]
    ELSE [run EXCEPT !.pc = "done", ![step] = outcome, !.result = "False"]

\* Where async_setup_entry stores the coordinator and the client, __init__.py
\* 474-477, and where each platform setup looks for the coordinator,
\* sensor.py 26 and button.py 40-41.  Nothing writes hass.data[DOMAIN].
StoredIn == "entry.runtime_data"
SensorCoordinatorPlace == "hass.data"
ButtonCoordinatorPlace == "entry.runtime_data"
Lookup(place, run) ==
    IF place = StoredIn /\ "coordinator" \in run.runtime_data THEN "coordinator"
    ELSE "KeyError"

\* async_setup_entry is called for an entry that is not loaded.
SetupBegin ==
    /\ ~up /\ pending = <<>>
    /\ setup.pc \in {"idle", "done"}
    /\ setup' = [NoSetup EXCEPT !.pc = "import"]
    /\ UNCHANGED <<now, data, last_update_success, pollVars, reads, lastRead, failed,
                   pollResult, returned, features, up, registry, devices, sensorVars,
                   buttonVars, pending, press, tm, ensure, flow, configured, overlap>>

\* __init__.py 41-48
SetupImport ==
    /\ setup.pc = "import"
    /\ \E outcome \in TypesImportOutcomes :
          setup' = SetupAfter(setup, "import", outcome, "connect")
    /\ UNCHANGED <<now, data, last_update_success, pollVars, reads, lastRead, failed,
                   pollResult, returned, features, up, registry, devices, sensorVars,
                   buttonVars, pending, press, tm, ensure, flow, configured, overlap>>

\* __init__.py 50-68
SetupConnect ==
    /\ setup.pc = "connect"
    /\ \E outcome \in ConnectOutcomes :
          setup' = SetupAfter(setup, "connect", outcome, "refresh")
    /\ UNCHANGED <<now, data, last_update_success, pollVars, reads, lastRead, failed,
                   pollResult, returned, features, up, registry, devices, sensorVars,
                   buttonVars, pending, press, tm, ensure, flow, configured, overlap>>

\* __init__.py 464-477: the coordinator is constructed and its first refresh
\* awaited; a failed first refresh raises out of async_setup_entry, a
\* successful one is followed by the store into entry.runtime_data.
SetupFirstRefresh ==
    /\ setup.pc = "refresh"
    /\ \E resp \in SyncResponses : RefreshWith(resp)
    /\ setup' = IF pollResult' = "ok"
                THEN [setup EXCEPT !.pc = "sensor", !.coordinator = TRUE, !.polls = 1,
                                   !.runtime_data = {"coordinator", "veeam_client"}]
                ELSE [setup EXCEPT !.pc = "done", !.coordinator = TRUE, !.polls = 1,
                                   !.result = "ConfigEntryNotReady"]
    /\ UNCHANGED <<now, pollVars, lastRead, features, up, registry, devices, sensorVars,
                   buttonVars, pending, press, tm, ensure, flow, configured, overlap>>

\* The setup forwarded to the sensor platform, __init__.py 479 and sensor.py
\* 21-135: the coordinator is looked up, and with it the first
\* _sync_entities runs on fresh tracking; a platform setup that raises is
\* logged and the forwarding goes on.
SetupSensorPlatform ==
    /\ setup.pc = "sensor"
    /\ LET found == Lookup(SensorCoordinatorPlace, setup)
           out == SensorSyncOut(data, {}, {}, FALSE, FALSE)
       IN /\ setup' = [setup EXCEPT !.pc = "button", !.sensor = found,
                                    !.forwarded = Append(@, "sensor")]
          /\ IF found = "coordinator"
             THEN /\ registry' = registry \cup {Entity(ThisEntry, u) : u \in out.new_entities}
                  /\ devices' = devices \cup {DeviceOf(u) : u \in out.new_entities}
                  /\ s_added_job_ids' = out.added_job_ids
                  /\ s_added_repository_ids' = out.added_repository_ids
                  /\ server_added' = out.server_added
                  /\ license_added' = out.license_added
             ELSE UNCHANGED <<registry, devices, sensorVars>>
    /\ UNCHANGED <<now, data, last_update_success, pollVars, reads, lastRead, failed,
                   pollResult, returned, features, up, buttonVars, pending, press, tm,
                   ensure, flow, configured, overlap>>

\* The setup forwarded to the button platform, __init__.py 479 and button.py
\* 34-267.
SetupButtonPlatform ==
    /\ setup.pc = "button"
    /\ LET found == Lookup(ButtonCoordinatorPlace, setup)
           out == ButtonSyncOut(data, features, registry, {}, {}, {})
       IN /\ setup' = [setup EXCEPT !.pc = "listener", !.button = found,
                                    !.forwarded = Append(@, "button")]
          /\ IF found = "coordinator"
             THEN /\ registry' = out.registry
                  /\ devices' = devices \cup {DeviceOf(u) : u \in out.new_entities}
                  /\ b_added_job_ids' = out.added_job_ids
                  /\ b_added_repository_ids' = out.added_repository_ids
                  /\ b_added_sobr_extent_ids' = out.added_sobr_extent_ids
             ELSE UNCHANGED <<registry, devices, buttonVars>>
    /\ UNCHANGED <<now, data, last_update_success, pollVars, reads, lastRead, failed,
                   pollResult, returned, features, up, sensorVars, pending, press, tm,
                   ensure, flow, configured, overlap>>

\* __init__.py 481-483: the update listener is registered and the run
\* returns True.
SetupFinish ==
    /\ setup.pc = "listener"
    /\ setup' = [setup EXCEPT !.pc = "done", !.listener = TRUE, !.result = "True"]
    /\ up' = TRUE
    /\ UNCHANGED <<now, data, last_update_success, pollVars, reads, lastRead, failed,
                   pollResult, returned, features, registry, devices, sensorVars,
                   buttonVars, pending, press, tm, ensure, flow, configured, overlap>>

NextSetup ==
    \/ SetupBegin
    \/ SetupImport
    \/ SetupConnect
    \/ SetupFirstRefresh
    \/ SetupSensorPlatform
    \/ SetupButtonPlatform
    \/ SetupFinish
    \/ Restart

SpecSetup == Init /\ [][NextSetup]_vars

\* C24: a run of async_setup_entry in which the import of the types module
\* or the client's connect failed has returned False and has constructed no
\* coordinator, issued no poll, stored no runtime data, forwarded no platform
\* setup and registered no update listener; up to the end of such a run the
\* snapshot, the reads and the registry are left as they were.
C24_FailedSetupLeavesNothing ==
    /\ []((setup.import = "ImportError" \/ setup.connect \notin {"none", "ok"}) =>
            /\ setup.pc = "done" /\ setup.result = "False"
            /\ ~setup.coordinator /\ setup.polls = 0
            /\ setup.runtime_data = {} /\ setup.forwarded = <<>>
            /\ ~setup.listener /\ ~up)
    /\ [][setup.pc \in {"import", "connect"} =>
             UNCHANGED <<data, reads, pollResult, registry, devices, pending, up>>]_vars

\* A run that imported the types module and then failed to connect.
C24_Witness ==
    /\ setup.pc = "done"
    /\ setup.import = "ok"
    /\ setup.connect = "ConnectionError"
    /\ setup.result = "False"

\* C25: after async_setup_entry returned True, the sensor platform setup and
\* the button platform setup each found the coordinator where the setup
\* stored it, in entry.runtime_data, and neither failed for lack of it.
C25_PlatformsFindCoordinator ==
    (setup.pc = "done" /\ setup.result = "True") =>
        /\ {"coordinator", "veeam_client"} \subseteq setup.runtime_data
        /\ setup.forwarded = <<"sensor", "button">>
        /\ setup.sensor = "coordinator"
        /\ setup.button = "coordinator"

\* ================================================= entity states from data
\* str.lower() on the strings the responses carry.
Lower(s) ==
    CASE s = "Running" -> "running"
      [] s = "Starting" -> "starting"
      [] s = "Working" -> "working"
      [] s = "WaitingTape" -> "waitingtape"
      [] s = "Inactive" -> "inactive"
      [] s = "Failed" -> "failed"
      [] s = "Warning" -> "warning"
      [] s = "Success" -> "success"
      [] s = "Sealed" -> "sealed"
      [] s = "MaintenanceMode" -> "maintenancemode"
      [] s = "Normal" -> "normal"
      [] OTHER -> s

\* The first record of a list with this id, or None.
RECURSIVE FirstWithId(_, _, _)
FirstWithId(list, id, i) ==
    IF i > Len(list) THEN NoData
    ELSE IF list[i].id = id THEN list[i]
    ELSE FirstWithId(list, id, i + 1)

\* sensor.py 209-215 and button.py 715-722
_job(d, job_id) == IF d = NoData THEN NoData ELSE FirstWithId(d.jobs, job_id, 1)

\* sensor.py 174-181
_repository(d, repo_id) ==
    IF d = NoData THEN NoData ELSE FirstWithId(d.repositories, repo_id, 1)

\* button.py 376-386: None, or the status list of the extent as [status |-> list].
_get_current_extent_status(d, sobr_id, extent_id) ==
    IF d = NoData THEN NoData
    ELSE LET sobr == FirstWithId(d.sobrs, sobr_id, 1) IN
         IF sobr = NoData \/ "extents" \notin DOMAIN sobr THEN NoData
         ELSE LET extent == FirstWithId(sobr.extents, extent_id, 1) IN
              IF extent = NoData THEN NoData ELSE [status |-> extent.status]

\* VeeamJobStatusSensor.native_value, sensor.py 237-246
VeeamJobStatusSensor_native_value(d, job_id) ==
    LET job == _job(d, job_id) IN
    IF job = NoData THEN "None"
    ELSE IF Lower(job.status) \in {"running", "starting"} THEN "running"
    ELSE IF Lower(job.last_result) = "" THEN "unknown"
    ELSE Lower(job.last_result)

\* button.py 31
_RUNNING_STATUSES == {"running", "working", "postprocessing", "waitingtape"}

\* VeeamJobStartButton.available, button.py 768-774
VeeamJobStartButton_available(d, job_id) ==
    LET job == _job(d, job_id) IN
    IF job = NoData THEN FALSE ELSE Lower(job.status) \notin _RUNNING_STATUSES

\* VeeamJobStopButton.available, button.py 824-830
VeeamJobStopButton_available(d, job_id) ==
    LET job == _job(d, job_id) IN
    IF job = NoData THEN FALSE ELSE Lower(job.status) \in _RUNNING_STATUSES

\* A Retry button that looks at the last result only.
RetryAvailableWhateverStatus(d, job_id) ==
    LET job == _job(d, job_id) IN
    IF job = NoData THEN FALSE ELSE Lower(job.last_result) \in {"failed", "warning"}

\* VeeamJobRetryButton.available, button.py 880-890
VeeamJobRetryButton_available(d, job_id) ==
    LET job == _job(d, job_id) IN
    IF job = NoData THEN FALSE
    ELSE IF Lower(job.status) \in _RUNNING_STATUSES THEN FALSE
    ELSE Lower(job.last_result) \in {"failed", "warning"}

\* any(s.lower() == flag for s in status)
AnyFlag(status, flag) == \E k \in 1..Len(status) : Lower(status[k]) = flag

\* The available properties of the four extent buttons, button.py 408-414,
\* 480-486, 552-558 and 625-631; enable tells the Enable button from the
\* Disable button of the mode whose status flag is given.
VeeamSOBRExtentButton_available(d, sobr_id, extent_id, flag, enable) ==
    LET found == _get_current_extent_status(d, sobr_id, extent_id) IN
    IF found = NoData THEN FALSE
    ELSE IF enable THEN ~AnyFlag(found.status, flag) ELSE AnyFlag(found.status, flag)

\* The key of repo_dict that each repository binary sensor reads, sensor.py
\* 947-1066.
RepositoryFlagKeys == {"online", "out_of_date", "immutable", "object_lock", "hardened",
                       "accessible", "mounted"}
RepositoryFlagField(key) ==
    CASE key = "online" -> "is_online"
      [] key = "out_of_date" -> "is_out_of_date"
      [] key = "immutable" -> "is_immutable"
      [] key = "object_lock" -> "is_object_lock"
      [] key = "hardened" -> "is_hardened"
      [] key = "accessible" -> "is_accessible"
      [] key = "mounted" -> "is_mounted"

\* is_on of the repository binary sensors, sensor.py 947-1066: the Online
\* sensor returns repo.get("is_online"), the others bool(repo.get(...)).
VeeamRepositoryBinarySensor_is_on(key, d, repo_id) ==
    LET repo == _repository(d, repo_id) IN
    IF repo = NoData THEN "None"
    ELSE IF key = "online" THEN Get(repo, "is_online")
    ELSE Bool(Get(repo, RepositoryFlagField(key)))

\* The responses the entity states are checked with: the status and last
\* result of a job, the additional properties and the state of a repository
\* and the status flags of an extent vary, one object kind at a time.
JobStatuses == {Enum("Running"), Enum("running"), Enum("Starting"), Enum("Working"),
                Enum("WaitingTape"), Enum("Inactive"), UNSET}
JobResults == {Enum("Success"), Enum("Failed"), Enum("Warning"), UNSET}
Immutabilities ==
    {[isEnabled |-> "True", daysCount |-> 7], [isEnabled |-> "True"],
     [isEnabled |-> "False", daysCount |-> 7], [isEnabled |-> "None"]}
Buckets == {[bucket |-> [name |-> "b"]]}
           \cup {[bucket |-> [name |-> "b", immutability |-> i]] : i \in Immutabilities}
Hardened == {[repository |-> [makeRecentBackupsImmutableDays |-> n]] : n \in {0, 7}}
AdditionalProperties ==
    {NoProperties} \cup Buckets \cup Hardened \cup {b @@ h : b \in Buckets, h \in Hardened}
RepositoryStates ==
    {Falsy, Result(<<RawStateNoFlag("r1")>>),
     Result(<<RawStateFull("r1", "True", "False")>>),
     Result(<<RawStateFull("r1", "False", "True")>>)}
ExtentStatuses ==
    {UNSET, ExtentFlags(<<>>), ExtentFlags(<<Enum("Normal")>>), ExtentFlags(<<Enum("Sealed")>>),
     ExtentFlags(<<Enum("sealed"), Enum("MaintenanceMode")>>),
     ExtentFlags(<<Enum("maintenancemode")>>)}

OneJob(st, lr) == Result(<<RawJobWith("j1", st, lr)>>)
OneRepository(ap) == Result(<<RawRepoWith("r1", ap)>>)
OneExtent(st) == Result(<<RawSobr("s1", Tier(<<RawExtent("x1", st, "none")>>), "none")>>)
EntityResponsesOf(jobs, repositories, states, sobrs) ==
    [jobs : jobs, server : {Falsy}, license : {Falsy}, repositories : repositories,
     states : states, sobrs : sobrs]
EntityResponses ==
    EntityResponsesOf({Raise("ValueError"), Result(<<>>)}
                          \cup {OneJob(st, lr) : st \in JobStatuses, lr \in JobResults},
                      {OneRepository(NoProperties)},
                      {Result(<<RawStateFull("r1", "True", "False")>>)},
                      {OneExtent(ExtentFlags(<<Enum("Sealed")>>))})
    \cup EntityResponsesOf({OneJob(Enum("Running"), UNSET)},
                           {Falsy} \cup {OneRepository(ap) : ap \in AdditionalProperties},
                           RepositoryStates, {Falsy})
    \cup EntityResponsesOf({OneJob(Enum("Running"), UNSET)}, {Falsy}, {Falsy},
                           {Falsy} \cup {OneExtent(st) : st \in ExtentStatuses})

EntitySetup == SetupEntryWith(EntityResponses)
EntityRefresh == RefreshFrom(EntityResponses)

NextEntities ==
    \/ EntitySetup
    \/ EntityRefresh
    \/ SensorSync
    \/ ButtonSync

SpecEntities == InitPoll /\ [][NextEntities]_vars

\* The object-storage flag and the hardened-repository setting that the
\* response of a repository exposed; the additional properties are kept in
\* the record under their own keys.
ObjectStorageFlag(repo) ==
    IF "bucket" \in DOMAIN repo /\ "immutability" \in DOMAIN repo.bucket
    THEN Get(repo.bucket.immutability, "isEnabled")
    ELSE "None"
HardenedDays(repo) ==
    IF "repository" \in DOMAIN repo
    THEN repo.repository.makeRecentBackupsImmutableDays
    ELSE 0

\* C22: for every repository record is_immutable is the object-storage flag
\* bucket.immutability.isEnabled when the source exposes it, whatever the
\* hardened-repository setting; otherwise True when
\* makeRecentBackupsImmutableDays > 0; otherwise it is not set.
C22_ImmutabilityResolution ==
    data # NoData =>
        \A i \in 1..Len(data.repositories) :
            LET repo == data.repositories[i] IN
            IF ObjectStorageFlag(repo) # "None"
            THEN Get(repo, "is_immutable") = ObjectStorageFlag(repo)
            ELSE IF HardenedDays(repo) > 0
            THEN Get(repo, "is_immutable") = "True"
            ELSE "is_immutable" \notin DOMAIN repo

\* C23: for every repository of the snapshot and each of its seven flags, a
\* flag the source gave no value for is unknown (None) in the record, and
\* the state of its binary sensor is then unknown, never False.
C23_MissingFlagIsUnknown ==
    data # NoData =>
        \A i \in 1..Len(data.repositories) : \A key \in RepositoryFlagKeys :
            Get(data.repositories[i], RepositoryFlagField(key)) = "None" =>
                VeeamRepositoryBinarySensor_is_on(key, data, data.repositories[i].id) = "None"

\* The (SOBR, extent) pairs of the snapshot.
ExtentsPresent(d) ==
    IF d = NoData THEN {}
    ELSE UNION {IF "extents" \in DOMAIN d.sobrs[i]
                THEN {<<d.sobrs[i].id, x>> : x \in SeqIds(d.sobrs[i].extents)}
                ELSE {} : i \in 1..Len(d.sobrs)}

\* Whether a status list has the flag in some spelling of upper and lower case.
Spelled(status, spellings) == \E k \in 1..Len(status) : status[k] \in spellings

\* C29: in every state, for each job of the snapshot exactly one of Start and
\* Stop is available and Retry is never available together with Stop; for
\* each extent of the snapshot exactly one of Enable and Disable Sealed Mode
\* and exactly one of Enable and Disable Maintenance Mode is available, a
\* flag spelled in any case counting as set; and every one of these buttons
\* is unavailable when the job or extent is not in the snapshot or there is
\* no snapshot.
C29_ComplementaryButtons ==
    /\ \A id \in JobIds :
          IF data # NoData /\ id \in SeqIds(data.jobs)
          THEN /\ VeeamJobStartButton_available(data, id)
                    # VeeamJobStopButton_available(data, id)
               /\ ~(VeeamJobRetryButton_available(data, id)
                    /\ VeeamJobStopButton_available(data, id))
          ELSE /\ ~VeeamJobStartButton_available(data, id)
               /\ ~VeeamJobStopButton_available(data, id)
               /\ ~VeeamJobRetryButton_available(data, id)
    /\ \A s \in SobrIds, x \in ExtentIds :
          \A flag \in {"sealed", "maintenancemode"} :
              IF <<s, x>> \in ExtentsPresent(data)
              THEN /\ VeeamSOBRExtentButton_available(data, s, x, flag, TRUE)
                        # VeeamSOBRExtentButton_available(data, s, x, flag, FALSE)
                   /\ Spelled(_get_current_extent_status(data, s, x).status,
                              IF flag = "sealed" THEN {"sealed", "Sealed"}
                              ELSE {"maintenancemode", "MaintenanceMode"})
                        = VeeamSOBRExtentButton_available(data, s, x, flag, FALSE)
              ELSE /\ ~VeeamSOBRExtentButton_available(data, s, x, flag, TRUE)
                   /\ ~VeeamSOBRExtentButton_available(data, s, x, flag, FALSE)

\* A snapshot with a running job whose last run failed, Stop being the one
\* button available for it, and with a sealed extent.
C29_Witness ==
    /\ data # NoData
    /\ "j1" \in SeqIds(data.jobs)
    /\ _job(data, "j1").status = "Working"
    /\ _job(data, "j1").last_result = "Failed"
    /\ VeeamJobStopButton_available(data, "j1")
    /\ <<"s1", "x1">> \in ExtentsPresent(data)
    /\ VeeamSOBRExtentButton_available(data, "s1", "x1", "sealed", FALSE)

\* C30: for every job record of a snapshot the Status sensor reads "running"
\* if and only if the Stop button is available and the Start button is not.
C30_StatusAgreesWithButtons ==
    data # NoData =>
        \A i \in 1..Len(data.jobs) :
            (VeeamJobStatusSensor_native_value(data, data.jobs[i].id) = "running")
                <=> (/\ VeeamJobStopButton_available(data, data.jobs[i].id)
                     /\ ~VeeamJobStartButton_available(data, data.jobs[i].id))

\* ============================================= overlapping token requests
\* ensure_valid_token called by a second task (a poll and a button press,
\* say) on the same VeeamTokenManager; the event loop switches tasks at the
\* awaits of token_manager.py 87 and 94, and nothing in the class serializes
\* the calls.
OverlapEnsure ==
    /\ overlap.pc \in {"idle", "done"}
    /\ overlap' = IF _needs_refresh(tm, now)
                  THEN Calling(now, tm, FirstAttempt(tm), <<>>, "none", "none")
                  ELSE Calling(now, tm, "done", <<>>, "True", "none")
    /\ UNCHANGED <<now, data, last_update_success, pollVars, reads, lastRead, failed,
                   pollResult, returned, features, up, registry, devices, sensorVars,
                   buttonVars, pending, setup, press, tm, ensure, flow, configured>>

\* The second task's await self._refresh_token_async(hass).
OverlapRefresh ==
    /\ overlap.pc = "refresh"
    /\ \E result \in TokenResults, build \in ClientBuilds :
          /\ tm' = RefreshedSession(tm, result, now, build)
          /\ overlap' = IF Obtained(result, build)
                        THEN [overlap EXCEPT !.pc = "done", !.log = Append(@, "refresh"),
                                             !.result = "True"]
                        ELSE [overlap EXCEPT !.pc = "authenticate",
                                             !.log = Append(@, "refresh"),
                                             !.cause = FailureCause(result, build)]
    /\ UNCHANGED <<now, data, last_update_success, pollVars, reads, lastRead, failed,
                   pollResult, returned, features, up, registry, devices, sensorVars,
                   buttonVars, pending, setup, press, ensure, flow, configured>>

\* The second task's await self._authenticate_async(hass).
OverlapAuthenticate ==
    /\ overlap.pc = "authenticate"
    /\ \E result \in TokenResults, build \in ClientBuilds :
          /\ tm' = AuthenticatedSession(tm, result, now, build)
          /\ overlap' = [overlap EXCEPT !.pc = "done", !.log = Append(@, "password"),
                                        !.result = AuthenticateOutcome(result, build),
                                        !.cause = IF Obtained(result, build) THEN "none"
                                                  ELSE FailureCause(result, build)]
    /\ UNCHANGED <<now, data, last_update_success, pollVars, reads, lastRead, failed,
                   pollResult, returned, features, up, registry, devices, sensorVars,
                   buttonVars, pending, setup, press, ensure, flow, configured>>

NextOverlap ==
    \/ EnsureValidToken
    \/ TokenRefresh
    \/ TokenAuthenticate
    \/ OverlapEnsure
    \/ OverlapRefresh
    \/ OverlapAuthenticate

SpecOverlap == InitPoll /\ [][NextOverlap]_vars

\* C26: an attempt changes the session all or nothing: after a step of
\* _refresh_token_async or _authenticate_async either the access token, the
\* expiry and the authenticated client are those of the token just obtained,
\* or none of the three changed; and whenever ensure_valid_token has
\* returned True the authenticated client is the one built from the current
\* access token.
C26_SessionAllOrNothing ==
    /\ [][ensure.pc \in {"refresh", "authenticate"} =>
             \/ /\ tm'.access_token = tm.access_token
                /\ tm'.token_expires_at = tm.token_expires_at
                /\ tm'.authenticated_client = tm.authenticated_client
             \/ /\ tm'.access_token # "None"
                /\ tm'.token_expires_at # NoneTime
                /\ tm'.authenticated_client = tm'.access_token]_vars
    /\ []((ensure.pc = "done" /\ ensure.result = "True") =>
             get_authenticated_client(tm) = tm.access_token)

\* A request of a call is in flight while the call awaits its executor job.
InFlight(c) == c.pc \in {"refresh", "authenticate"}
\* The call has submitted the refresh token it found.
SubmittedRefresh(c) ==
    c.pc = "refresh" \/ (c.pc # "idle" /\ \E k \in 1..Len(c.log) : c.log[k] = "refresh")

\* C27: while two calls of ensure_valid_token overlap, at most one refresh
\* or authentication request is in flight, and the two calls have not both
\* submitted the same refresh token.
C27_OneRequestInFlight ==
    /\ ~(InFlight(ensure) /\ InFlight(overlap))
    /\ (/\ InFlight(ensure) /\ InFlight(overlap)
        /\ SubmittedRefresh(ensure) /\ SubmittedRefresh(overlap)) =>
          ensure.before.refresh_token # overlap.before.refresh_token

\* ================================================ reconcile after a failure
\* The responses of polls whose repositories or scale-out repositories
\* section fails, at its read or at a record, after a poll that had them.
DegradedResponses ==
    [jobs : {Result(<<GoodJob("j1")>>)},
     server : {Falsy},
     license : {Result(RawLicense("none"))},
     repositories : {Raise("ValueError"), Result(<<RawRepo(Uuid("r1"), "none")>>),
                     Result(<<RawRepo(Uuid("r1"), "none"),
                              RawRepo(Uuid("r2"), "ValueError")>>)},
     states : {Raise("ValueError"), Result(<<RawState("r1", "True")>>)},
     sobrs : {Raise("ValueError"),
              Result(<<RawSobr("s1", Tier(<<GoodExtent("x1")>>), "none")>>),
              Result(<<RawSobr("s1", Tier(<<GoodExtent("x1")>>), "none"),
                       RawSobr("s1", NoTier, "ValueError")>>)}]

DegradedSetup == SetupEntryWith(DegradedResponses)
DegradedRefresh == RefreshFrom(DegradedResponses)

NextDegraded ==
    \/ DegradedSetup
    \/ DegradedRefresh
    \/ SensorSync
    \/ ButtonSync

SpecDegraded == InitPoll /\ [][NextDegraded]_vars

\* C28: a poll whose repositories (scale-out repositories) section failed
\* has succeeded with that section empty, and the reconcile that follows it
\* leaves no repository-keyed (extent-keyed) entity of this config entry in
\* the registry.
C28_FailedSectionRemovesEntities ==
    [][(pending = <<"button">> /\ pending' = <<>> /\ data # NoData) =>
          /\ "repositories" \in failed =>
                /\ pollResult = "ok" /\ data.repositories = <<>>
                /\ \A e \in registry' :
                      ~(/\ e.config_entry_id = ThisEntry
                        /\ StartsWith(e.unique_id, <<ThisEntry, "repository">>))
          /\ "sobrs" \in failed =>
                /\ pollResult = "ok" /\ data.sobrs = <<>>
                /\ \A e \in registry' :
                      ~(/\ e.config_entry_id = ThisEntry
                        /\ StartsWith(e.unique_id, <<ThisEntry, "sobr">>)
                        /\ HasExtentToken(e.unique_id))]_vars

====
